---- MODULE Spec2Model ----
(***************************************************************************)
(* Typing-speed trainer: the modular application (js/app.js) wiring the    *)
(* countdown Timer (js/timerModule.js), the TypingTest session state       *)
(* machine (the unconditional-advance typingTest.js), the statistics       *)
(* functions (statsModule) and the history store (js/storageModule.js).    *)
(*                                                                         *)
(* Strings are sequences of one-character strings, so that split, trim,    *)
(* endsWith and the position-wise comparison are computed as the code      *)
(* computes them.  One action of the model is one browser task: an input   *)
(* event, a keydown event with all its listeners, a button click, one      *)
(* firing of the interval callback, or the continuation of a resolved      *)
(* text fetch.                                                             *)
(***************************************************************************)
EXTENDS Integers, Sequences, FiniteSets, TLC

\* ------------------------------------------------------------------ bounds
\* letters in the value the input field takes in one input event
MaxInputLen == 1
\* text fetches started by resetTest that may be in flight at once
MaxFetches == 1
\* sessions started after the page has loaded
MaxSessions == 1
\* input events on the field after the page has loaded
MaxKeystrokes == 2
\* global-state page: space keydowns handled after the last word was left
MaxOverrun == 1
\* records in the history when the history store is exercised on its own
MaxStored == 2
\* whole seconds the wall clock advances between two interval callbacks
TickSeconds == 40
\* characters counted, and seconds elapsed either way, when the statistics
\* functions are exercised on their own
MaxChars == 3

MaxSeconds == 4

\* ------------------------------------------------------- program constants
\* new Timer(60, ...) in init
Duration == 60
\* textService.js: texts joined into one test text, texts kept per source
TEXT_MULTIPLIER == 3

CACHE_LIMIT == 10

\* ------------------------------------------------------------ environment
\* letters the user types into the field
TypedChars == {"a"}

\* texts the text service resolves with
Texts == { <<"b">>, <<"a", " ", " ", "a">> }

\* keys of keydown events
Keys == {" ", "Enter", "Escape", "a"}

\* history found in localStorage when the page loads
StoredHistories ==
  { <<>>,
    <<[wpm |-> 1, accuracy |-> 50, date |-> [type |-> "string", time |-> 0],
       formattedDate |-> [type |-> "string", time |-> 0]]>> }

\* what the entry of a localStorage key can hold: nothing, the JSON text of
\* a list, text that JSON.parse rejects, the JSON text of an object, the
\* JSON text null
StorageKinds == {"absent", "list", "unparsable", "object", "null"}

\* typing records found under 'wpmHistory'
TypingHistories ==
  { <<>>,
    <<[timestamp |-> [type |-> "string", time |-> 0], wpm |-> 1,
       wordsCompleted |-> 1, totalWords |-> 2, accuracy |-> 50]>> }

SeqsUpTo(S, n) == UNION { [1..k -> S] : k \in 0..n }

\* values the input field can hold after an input event: some letters,
\* followed or not by a space
InputValues ==
  LET typed == SeqsUpTo(TypedChars, MaxInputLen)
  IN  typed \cup { Append(value, " ") : value \in typed }

\* ------------------------------------------------------- string functions
Min(a, b) == IF a <= b THEN a ELSE b

\* String.prototype.endsWith(' ')
EndsWithSpace(s) == Len(s) > 0 /\ s[Len(s)] = " "

\* String.prototype.trim()
RECURSIVE TrimStart(_)
TrimStart(s) == IF Len(s) > 0 /\ s[1] = " " THEN TrimStart(Tail(s)) ELSE s

RECURSIVE TrimEnd(_)
TrimEnd(s) == IF EndsWithSpace(s) THEN TrimEnd(SubSeq(s, 1, Len(s) - 1)) ELSE s

Trim(s) == TrimEnd(TrimStart(s))

\* String.prototype.split(' ')
RECURSIVE Split(_)
Split(s) ==
  IF \E i \in 1..Len(s) : s[i] = " "
  THEN LET i == CHOOSE j \in 1..Len(s) :
                  s[j] = " " /\ \A k \in 1..(j - 1) : s[k] # " "
       IN  <<SubSeq(s, 1, i - 1)>> \o Split(SubSeq(s, i + 1, Len(s)))
  ELSE <<s>>

\* Math.round(n / d) for d > 0: the nearest integer, halves rounded up
Round(n, d) == (2 * n + d) \div (2 * d)

\* ------------------------------------------------------------------ state
VARIABLES
  \* TypingTest fields
  words, currentWordIndex, currentCharIndex, correctChars, totalChars,
  totalKeystrokes, isActive, lastProcessedInput,
  \* Timer fields, and the number of intervals set and not cleared
  remainingTime, timerId, isRunning, intervals,
  \* DOM elements of app.js
  inputValue, inputDisabled, startDisabled, resultsHidden,
  wpmDisplay, accuracyDisplay, improvementIndicator,
  \* app.js module variable: a space key listener is registered
  spaceKeyListener,
  \* localStorage entry 'typing_test_results', parsed
  storedResults,
  \* loadNewText calls awaiting fetchText: started by resetTest, and by init
  pendingFetches, initPending,
  \* the loadNewText call made last is still awaiting fetchText; followed
  \* where the requests are told apart (SpecRequests)
  latestPending,
  \* classes 'correct' and 'incorrect' of the character elements, word by
  \* word; followed where the display is told apart (SpecMarks)
  charMarks,
  \* observation: calls made by the last event, with the stats at each call
  calls,
  \* observation: complete() has run since the last reset()
  completed,
  \* observation: moveToNextWord calls since the last reset(), and whether
  \* each was made with the input equal to the current word
  advances, allExact,
  \* observation: length of the history at the last reset(), the sessions
  \* started on a stopped timer and the input events since the page loaded
  resultsAtReset, sessionsStarted, inputEvents,
  \* observation: saveResult has caught an exception since the last reset()
  writeFailed,
  \* the global-state page: session fields on window, set by init()
  window_allWords, window_currentWordIndex, window_wordInputs,
  window_correctWordsCount, window_totalCharactersTyped,
  window_correctCharactersTyped,
  \* the global-state page: timer.js and stats.js fields on window; an
  \* interval or a start time is held (TRUE) or null (FALSE)
  window_timerStarted, window_timerFinished, window_timerInterval,
  window_typingStartTime, window_wpmUpdateInterval,
  \* the global-state page: callGPT() promises not yet settled
  gptPending,
  \* what the entry 'typing_test_results' holds (storedResults is its list)
  storedKind,
  \* localStorage entry 'wpmHistory' of the global-state page
  wpmHistoryKind, wpmHistory,
  \* observation: the last call made on the history store and its outcome
  returned,
  \* textService.js: the texts cached for each source
  textCache

vars == << words, currentWordIndex, currentCharIndex, correctChars, totalChars,
           totalKeystrokes, isActive, lastProcessedInput,
           remainingTime, timerId, isRunning, intervals,
           inputValue, inputDisabled, startDisabled, resultsHidden,
           wpmDisplay, accuracyDisplay, improvementIndicator,
           spaceKeyListener, storedResults, pendingFetches, initPending,
           calls, completed, advances, allExact, resultsAtReset,
           sessionsStarted, inputEvents, writeFailed,
           window_allWords, window_currentWordIndex, window_wordInputs,
           window_correctWordsCount, window_totalCharactersTyped,
           window_correctCharactersTyped, window_timerStarted,
           window_timerFinished, window_timerInterval,
           window_typingStartTime, window_wpmUpdateInterval, gptPending,
           storedKind, wpmHistoryKind, wpmHistory, returned, textCache,
           latestPending, charMarks >>

\* the whole state as one record, so that a handler is a function on it;
\* setItemThrows is what the environment does to a write of this event and
\* now is what the clock shows during it
World ==
  [ words |-> words, currentWordIndex |-> currentWordIndex,
    currentCharIndex |-> currentCharIndex, correctChars |-> correctChars,
    totalChars |-> totalChars, totalKeystrokes |-> totalKeystrokes,
    isActive |-> isActive, lastProcessedInput |-> lastProcessedInput,
    remainingTime |-> remainingTime, timerId |-> timerId,
    isRunning |-> isRunning, intervals |-> intervals,
    inputValue |-> inputValue, inputDisabled |-> inputDisabled,
    startDisabled |-> startDisabled, resultsHidden |-> resultsHidden,
    wpmDisplay |-> wpmDisplay, accuracyDisplay |-> accuracyDisplay,
    improvementIndicator |-> improvementIndicator,
    spaceKeyListener |-> spaceKeyListener, storedResults |-> storedResults,
    pendingFetches |-> pendingFetches, initPending |-> initPending,
    calls |-> <<>>, completed |-> completed, advances |-> advances,
    allExact |-> allExact, resultsAtReset |-> resultsAtReset,
    sessionsStarted |-> sessionsStarted, inputEvents |-> inputEvents,
    writeFailed |-> writeFailed,
    window_allWords |-> window_allWords,
    window_currentWordIndex |-> window_currentWordIndex,
    window_wordInputs |-> window_wordInputs,
    window_correctWordsCount |-> window_correctWordsCount,
    window_totalCharactersTyped |-> window_totalCharactersTyped,
    window_correctCharactersTyped |-> window_correctCharactersTyped,
    window_timerStarted |-> window_timerStarted,
    window_timerFinished |-> window_timerFinished,
    window_timerInterval |-> window_timerInterval,
    window_typingStartTime |-> window_typingStartTime,
    window_wpmUpdateInterval |-> window_wpmUpdateInterval,
    gptPending |-> gptPending,
    storedKind |-> storedKind,
    wpmHistoryKind |-> wpmHistoryKind,
    wpmHistory |-> wpmHistory,
    returned |-> returned, textCache |-> textCache,
    latestPending |-> latestPending, charMarks |-> charMarks,
    setItemThrows |-> FALSE, now |-> 0 ]

Commit(w) ==
  /\ words' = w.words
  /\ currentWordIndex' = w.currentWordIndex
  /\ currentCharIndex' = w.currentCharIndex
  /\ correctChars' = w.correctChars
  /\ totalChars' = w.totalChars
  /\ totalKeystrokes' = w.totalKeystrokes
  /\ isActive' = w.isActive
  /\ lastProcessedInput' = w.lastProcessedInput
  /\ remainingTime' = w.remainingTime
  /\ timerId' = w.timerId
  /\ isRunning' = w.isRunning
  /\ intervals' = w.intervals
  /\ inputValue' = w.inputValue
  /\ inputDisabled' = w.inputDisabled
  /\ startDisabled' = w.startDisabled
  /\ resultsHidden' = w.resultsHidden
  /\ wpmDisplay' = w.wpmDisplay
  /\ accuracyDisplay' = w.accuracyDisplay
  /\ improvementIndicator' = w.improvementIndicator
  /\ spaceKeyListener' = w.spaceKeyListener
  /\ storedResults' = w.storedResults
  /\ pendingFetches' = w.pendingFetches
  /\ initPending' = w.initPending
  /\ calls' = w.calls
  /\ completed' = w.completed
  /\ advances' = w.advances
  /\ allExact' = w.allExact
  /\ resultsAtReset' = w.resultsAtReset
  /\ sessionsStarted' = w.sessionsStarted
  /\ inputEvents' = w.inputEvents
  /\ writeFailed' = w.writeFailed
  /\ window_allWords' = w.window_allWords
  /\ window_currentWordIndex' = w.window_currentWordIndex
  /\ window_wordInputs' = w.window_wordInputs
  /\ window_correctWordsCount' = w.window_correctWordsCount
  /\ window_totalCharactersTyped' = w.window_totalCharactersTyped
  /\ window_correctCharactersTyped' = w.window_correctCharactersTyped
  /\ window_timerStarted' = w.window_timerStarted
  /\ window_timerFinished' = w.window_timerFinished
  /\ window_timerInterval' = w.window_timerInterval
  /\ window_typingStartTime' = w.window_typingStartTime
  /\ window_wpmUpdateInterval' = w.window_wpmUpdateInterval
  /\ gptPending' = w.gptPending
  /\ storedKind' = w.storedKind
  /\ wpmHistoryKind' = w.wpmHistoryKind
  /\ wpmHistory' = w.wpmHistory
  /\ returned' = w.returned
  /\ textCache' = w.textCache
  /\ latestPending' = w.latestPending
  /\ charMarks' = w.charMarks

\* the stats object built by updateStats and complete
StatsOf(w) ==
  [ correctChars |-> w.correctChars, totalChars |-> w.totalChars,
    totalKeystrokes |-> w.totalKeystrokes,
    currentWordIndex |-> w.currentWordIndex, totalWords |-> Len(w.words) ]

\* what the observation log holds for a call that passes no stats
NoStats ==
  [ correctChars |-> 0, totalChars |-> 0, totalKeystrokes |-> 0,
    currentWordIndex |-> 0, totalWords |-> 0 ]

\* no call has been made on the history store
NoCall ==
  [ op |-> "none", ok |-> FALSE, threw |-> FALSE, arg |-> <<>>,
    value |-> [isArray |-> FALSE, truthy |-> FALSE, items |-> <<>>] ]

\* record a call in the observation log
Called(w, name) ==
  [w EXCEPT !.calls = Append(@, [name |-> name, stats |-> NoStats])]

\* record a call of onUpdate(stats) or onComplete(stats)
CalledWith(w, name, stats) ==
  [w EXCEPT !.calls = Append(@, [name |-> name, stats |-> stats])]

\* ---------------------------------------------------------- statsModule
\* calculateWPM taking the seconds for minutes
calculateWPM_perSecond(correct, timeInSeconds) ==
  IF timeInSeconds = 0 THEN 0
  ELSE Round(correct, 5 * timeInSeconds)

\* calculateWPM(correctChars, timeInSeconds)
calculateWPM(correct, timeInSeconds) ==
  IF timeInSeconds = 0 THEN 0
  ELSE IF timeInSeconds > 0
       THEN Round(60 * correct, 5 * timeInSeconds)
       ELSE Round(0 - 60 * correct, 0 - 5 * timeInSeconds)

\* calculateAccuracy(correctChars, totalChars)
calculateAccuracy(correct, total) ==
  IF total = 0 THEN 100 ELSE Round(100 * correct, total)

\* calculateImprovement(currentResult, previousResults)
calculateImprovement(currentResult, previousResults) ==
  IF Len(previousResults) = 0
  THEN [speed |-> FALSE, accuracy |-> FALSE, isFirstTest |-> TRUE]
  ELSE LET lastResult == previousResults[Len(previousResults)]
       IN  [ speed |-> currentResult.wpm > lastResult.wpm,
             accuracy |-> currentResult.accuracy > lastResult.accuracy,
             isFirstTest |-> FALSE ]

\* formatDate(date): a string, fixed by the instant
formatDate(date) == [type |-> "string", time |-> date.time]

\* createTestResult(wpm, accuracy), new Date() being the instant now
createTestResult(wpm, accuracy, now) ==
  [ wpm |-> wpm, accuracy |-> accuracy,
    date |-> [type |-> "Date", time |-> now],
    formattedDate |-> formatDate([type |-> "Date", time |-> now]) ]

\* -------------------------------------------------------- storageModule
\* JavaScript values a reader of the history can return: an array with its
\* items, or a value that is no array, truthy (an object) or falsy (null)
JSArray(items) == [isArray |-> TRUE, truthy |-> TRUE, items |-> items]

JSObject == [isArray |-> FALSE, truthy |-> TRUE, items |-> <<>>]

JSNull == [isArray |-> FALSE, truthy |-> FALSE, items |-> <<>>]

\* JSON.parse(text) of an entry that is present, when it does not throw
JSONparse(kind, items) ==
  IF kind = "list" THEN JSArray(items)
  ELSE IF kind = "object" THEN JSObject
  ELSE JSNull

\* JSON.stringify: a Date is written as its ISO string, which JSON.parse
\* reads back as a string
toJSON(record) ==
  [record EXCEPT !.date = [type |-> "string", time |-> @.time]]

\* JSON.parse(JSON.stringify(results))
JSONstringify(results) == [i \in 1..Len(results) |-> toJSON(results[i])]

\* getResults(): an absent entry gives [], an exception of JSON.parse is
\* caught and gives [], anything else is returned as parsed
getResults(w) ==
  IF w.storedKind \in {"absent", "unparsable"} THEN JSArray(<<>>)
  ELSE JSONparse(w.storedKind, w.storedResults)

\* saveResult writing a list that holds only the new result
saveResult_overwrite(w, result) ==
  Called([w EXCEPT !.storedResults = JSONstringify(<<result>>),
                   !.storedKind = "list"],
         "saveResult returned true")

\* saveResult(result): read, push, write back; push on a value that is no
\* array throws and so may setItem, the exception is caught and the entry
\* stays as it was
saveResult(w, result) ==
  LET results == getResults(w)
  IN  IF ~results.isArray \/ w.setItemThrows
      THEN Called([w EXCEPT !.writeFailed = TRUE], "saveResult returned false")
      ELSE Called([w EXCEPT !.storedResults =
                              JSONstringify(Append(results.items, result)),
                            !.storedKind = "list"],
                  "saveResult returned true")

\* getTypingHistory() of stats.js: JSON.parse(getItem('wpmHistory')) || [];
\* threw tells that JSON.parse threw, nothing catching it
getTypingHistory(w) ==
  IF w.wpmHistoryKind = "unparsable"
  THEN [threw |-> TRUE, value |-> JSNull]
  ELSE LET parsed == IF w.wpmHistoryKind = "absent" THEN JSNull
                     ELSE JSONparse(w.wpmHistoryKind, w.wpmHistory)
       IN  [ threw |-> FALSE,
             value |-> IF parsed.truthy THEN parsed ELSE JSArray(<<>>) ]

\* ---------------------------------------------------------------- Timer
\* Timer.stop() forgetting its interval without clearing it
Timer_stop_noClear(w) ==
  IF w.timerId
  THEN [w EXCEPT !.timerId = FALSE, !.isRunning = FALSE]
  ELSE w

\* Timer.stop()
Timer_stop(w) ==
  IF w.timerId
  THEN [w EXCEPT !.intervals = @ - 1, !.timerId = FALSE, !.isRunning = FALSE]
  ELSE w

\* Timer.start() setting an interval whether or not the timer is running
Timer_start_unguarded(w) ==
  Called(Called([w EXCEPT !.isRunning = TRUE, !.timerId = TRUE,
                          !.intervals = @ + 1],
                IF w.isRunning THEN "Timer.start of a running timer"
                ELSE "Timer.start"),
         "onTick")

\* Timer.start(): the interval callback is the TimerTick action; the log
\* tells a call on a running timer from a call on a stopped one
Timer_start(w) ==
  IF w.isRunning THEN Called(w, "Timer.start of a running timer")
  ELSE Called(Called([w EXCEPT !.isRunning = TRUE, !.timerId = TRUE,
                               !.intervals = @ + 1],
                     "Timer.start"),
              "onTick")

\* Timer.reset() without its call of stop()
Timer_reset_noStop(w) ==
  Called([w EXCEPT !.remainingTime = Duration], "onTick")

\* Timer.reset()
Timer_reset(w) ==
  Called(Called([Timer_stop(w) EXCEPT !.remainingTime = Duration],
                IF w.isRunning THEN "Timer.reset of a running timer"
                ELSE "Timer.reset"),
         "onTick")

\* ------------------------------------------- app.js callbacks of the test
\* handleTestStart()
handleTestStart(w) ==
  [Timer_start(w) EXCEPT !.startDisabled = TRUE]

\* handleTestUpdate(stats)
handleTestUpdate(w, stats) ==
  LET elapsedTime == 60 - w.remainingTime
  IN  [w EXCEPT !.wpmDisplay = calculateWPM(stats.correctChars, elapsedTime),
                !.accuracyDisplay =
                    calculateAccuracy(stats.correctChars, stats.totalChars)]

\* showImprovementIndicator: calculateImprovement reads lastResult.wpm of
\* an undefined lastResult when getResults() returned an object
showImprovementIndicatorThrows(w) ==
  LET previousResults == getResults(w)
  IN  previousResults.truthy /\ ~previousResults.isArray

\* showImprovementIndicator(result), when it does not throw
showImprovementIndicator(w, result) ==
  LET previousResults == getResults(w)
      improvement == calculateImprovement(result, previousResults.items)
  IN  [w EXCEPT !.improvementIndicator =
         IF improvement.isFirstTest THEN "This is your first test!"
         ELSE IF improvement.speed /\ improvement.accuracy
              THEN "Great job! You improved both speed and accuracy."
         ELSE IF improvement.speed THEN "You improved your typing speed!"
         ELSE IF improvement.accuracy
              THEN "You improved your typing accuracy!"
         ELSE "Keep practicing to improve your results."]

\* handleTestComplete giving up when the result could not be saved
handleTestComplete_saveOrNothing(w, stats) ==
  LET w1 == Timer_stop(w)
      elapsedTime == 60 - w1.remainingTime
      wpm == calculateWPM(stats.correctChars, elapsedTime)
      accuracy == calculateAccuracy(stats.correctChars, stats.totalChars)
      result == createTestResult(wpm, accuracy, w.now)
      w2 == saveResult(w1, result)
      w3 == [w2 EXCEPT !.wpmDisplay = wpm, !.accuracyDisplay = accuracy]
  IN  IF w2.writeFailed THEN w2
      ELSE [showImprovementIndicator(w3, result) EXCEPT
              !.resultsHidden = FALSE, !.startDisabled = FALSE]

\* handleTestComplete(stats); an exception of showImprovementIndicator
\* ends it there
handleTestComplete(w, stats) ==
  LET w1 == Timer_stop(w)
      elapsedTime == 60 - w1.remainingTime
      wpm == calculateWPM(stats.correctChars, elapsedTime)
      accuracy == calculateAccuracy(stats.correctChars, stats.totalChars)
      result == createTestResult(wpm, accuracy, w.now)
      w2 == saveResult(w1, result)
      w3 == [w2 EXCEPT !.wpmDisplay = wpm, !.accuracyDisplay = accuracy]
  IN  IF showImprovementIndicatorThrows(w3) THEN w3
      ELSE [showImprovementIndicator(w3, result) EXCEPT
              !.resultsHidden = FALSE, !.startDisabled = FALSE]

\* ----------------------------------------------------------- TypingTest
\* words[currentWordIndex], or "undefined" past the end of the array
CurrentWordDefined(w) == w.currentWordIndex + 1 <= Len(w.words)

CurrentWord(w) == w.words[w.currentWordIndex + 1]

\* TypingTest.updateStats(): onUpdate is handleTestUpdate
updateStats(w) ==
  handleTestUpdate(CalledWith(w, "onUpdate", StatsOf(w)), StatsOf(w))

\* complete() leaving the input field enabled
complete_keepEnabled(w) ==
  LET w1 == [w EXCEPT !.isActive = FALSE, !.completed = TRUE]
  IN  handleTestComplete(
        CalledWith(Called(w1, "complete"), "onComplete", StatsOf(w1)),
        StatsOf(w1))

\* TypingTest.complete(): onComplete is handleTestComplete
complete(w) ==
  LET w1 == [w EXCEPT !.isActive = FALSE, !.inputDisabled = TRUE,
                      !.completed = TRUE]
  IN  handleTestComplete(
        CalledWith(Called(w1, "complete"), "onComplete", StatsOf(w1)),
        StatsOf(w1))

\* reset() leaving currentWordIndex as it is
reset_keepIndex(w) ==
  updateStats(Called(
    [w EXCEPT !.currentCharIndex = 0,
              !.correctChars = 0, !.totalChars = 0, !.totalKeystrokes = 0,
              !.isActive = FALSE, !.inputValue = <<>>,
              !.inputDisabled = FALSE,
              !.completed = FALSE, !.advances = 0, !.allExact = TRUE,
              !.writeFailed = FALSE,
              !.resultsAtReset = Len(w.storedResults)],
    "reset"))

\* reset() reporting the stats before it clears the counters
reset_statsFirst(w) ==
  [updateStats(Called(w, "reset")) EXCEPT
              !.currentWordIndex = 0, !.currentCharIndex = 0,
              !.correctChars = 0, !.totalChars = 0, !.totalKeystrokes = 0,
              !.isActive = FALSE, !.inputValue = <<>>,
              !.inputDisabled = FALSE,
              !.completed = FALSE, !.advances = 0, !.allExact = TRUE,
              !.writeFailed = FALSE,
              !.resultsAtReset = Len(w.storedResults)]

\* TypingTest.reset()
reset(w) ==
  updateStats(Called(
    [w EXCEPT !.currentWordIndex = 0, !.currentCharIndex = 0,
              !.correctChars = 0, !.totalChars = 0, !.totalKeystrokes = 0,
              !.isActive = FALSE, !.inputValue = <<>>,
              !.inputDisabled = FALSE,
              !.completed = FALSE, !.advances = 0, !.allExact = TRUE,
              !.writeFailed = FALSE,
              !.resultsAtReset = Len(w.storedResults)],
    "reset"))

\* TypingTest.setText(text)
setText(w, text) ==
  reset(Called([w EXCEPT !.words = Split(text)], "setText"))

\* the first loop of moveToNextWord counting every compared position
CorrectCharsInWord_noCompare(typed, currentWord) ==
  Min(Len(typed), Len(currentWord))

\* position-wise matches of the first loop of moveToNextWord
CorrectCharsInWord(typed, currentWord) ==
  Cardinality({ i \in 1..Min(Len(typed), Len(currentWord)) :
                  typed[i] = currentWord[i] })

\* moveToNextWord reads currentWord.length of an undefined word
moveToNextWordThrows(w) == ~CurrentWordDefined(w)

\* moveToNextWord completing one advance too late (> for >=)
moveToNextWord_lateComplete(w) ==
  LET currentWord == CurrentWord(w)
      typed == Trim(w.inputValue)
      w1 == [Called(w, "moveToNextWord") EXCEPT
               !.correctChars = @ + CorrectCharsInWord(typed, currentWord)
                                  + (IF typed = currentWord THEN 1 ELSE 0),
               !.totalChars = @ + Len(currentWord) + 1,
               !.currentWordIndex = @ + 1,
               !.currentCharIndex = 0,
               !.inputValue = <<>>,
               !.advances = @ + 1,
               !.allExact = @ /\ typed = currentWord]
  IN  IF w1.currentWordIndex > Len(w1.words)
      THEN complete(w1)
      ELSE updateStats(w1)

\* moveToNextWord leaving the space out of totalChars
moveToNextWord_noSpaceInTotal(w) ==
  LET currentWord == CurrentWord(w)
      typed == Trim(w.inputValue)
      w1 == [Called(w, "moveToNextWord") EXCEPT
               !.correctChars = @ + CorrectCharsInWord(typed, currentWord)
                                  + (IF typed = currentWord THEN 1 ELSE 0),
               !.totalChars = @ + Len(currentWord),
               !.currentWordIndex = @ + 1,
               !.currentCharIndex = 0,
               !.inputValue = <<>>,
               !.advances = @ + 1,
               !.allExact = @ /\ typed = currentWord]
  IN  IF w1.currentWordIndex >= Len(w1.words)
      THEN complete(w1)
      ELSE updateStats(w1)

\* TypingTest.moveToNextWord(), when it does not throw
moveToNextWord(w) ==
  LET currentWord == CurrentWord(w)
      typed == Trim(w.inputValue)
      w1 == [Called(w, "moveToNextWord") EXCEPT
               !.correctChars = @ + CorrectCharsInWord(typed, currentWord)
                                  + (IF typed = currentWord THEN 1 ELSE 0),
               !.totalChars = @ + Len(currentWord) + 1,
               !.currentWordIndex = @ + 1,
               !.currentCharIndex = 0,
               !.inputValue = <<>>,
               !.advances = @ + 1,
               !.allExact = @ /\ typed = currentWord]
  IN  IF w1.currentWordIndex >= Len(w1.words)
      THEN complete(w1)
      ELSE updateStats(w1)

\* processInput reads currentWord.length of an undefined word
processInputThrows(w, input) ==
  ~EndsWithSpace(input) /\ ~CurrentWordDefined(w)

\* TypingTest.processInput(input), when it does not throw; the character
\* marks it sets are display state
processInput(w, input) ==
  IF EndsWithSpace(input) THEN w
  ELSE [w EXCEPT !.currentCharIndex = Len(input),
                 !.lastProcessedInput = input]

\* handleInput calling onStart on every input event
handleInput_alwaysStart(w) ==
  LET w1 == handleTestStart(Called([w EXCEPT !.isActive = TRUE], "onStart"))
      w2 == [w1 EXCEPT !.totalKeystrokes = @ + 1]
  IN  IF processInputThrows(w2, w2.inputValue)
      THEN w2
      ELSE updateStats(processInput(w2, w2.inputValue))

\* TypingTest.handleInput(event); the field already holds the new value
handleInput(w) ==
  LET w1 == IF ~w.isActive
            THEN handleTestStart(Called([w EXCEPT !.isActive = TRUE],
                                        "onStart"))
            ELSE w
      w2 == [w1 EXCEPT !.totalKeystrokes = @ + 1]
  IN  IF processInputThrows(w2, w2.inputValue)
      THEN w2
      ELSE updateStats(processInput(w2, w2.inputValue))

\* ------------------------------------------------------------------ app.js
\* loadNewText() up to its await of fetchText()
loadNewText(w) ==
  [w EXCEPT !.inputDisabled = TRUE, !.pendingFetches = @ + 1,
            !.latestPending = TRUE]

\* loadNewText() after fetchText() has resolved with text
loadNewTextResolved(w, text) ==
  [setText(w, text) EXCEPT !.inputDisabled = FALSE]

\* resetTest()
resetTest(w) ==
  LET w1 == Timer_reset(Called(w, "resetTest"))
      w2 == reset(w1)
      w3 == [w2 EXCEPT !.inputValue = <<>>, !.inputDisabled = FALSE,
                       !.startDisabled = FALSE, !.resultsHidden = TRUE]
  IN  loadNewText(w3)

\* startTest()
startTest(w) ==
  [resetTest(w) EXCEPT !.inputDisabled = FALSE, !.resultsHidden = TRUE,
                       !.spaceKeyListener = TRUE]

\* the space key listener created by startTest
spaceKeyHandler(w, key) ==
  IF key = " " /\ w.isActive
  THEN IF CurrentWordDefined(w) /\ Trim(w.inputValue) = CurrentWord(w)
       THEN moveToNextWord(w)
       ELSE w
  ELSE w

\* handleTimerComplete leaving the session as it is
handleTimerComplete_ignored(w) == w

\* handleTimerComplete without its test of getIsActive()
handleTimerComplete_unguarded(w) == complete(w)

\* handleTimerComplete()
handleTimerComplete(w) ==
  IF w.isActive THEN complete(w) ELSE w

\* handleKeyDown advancing on a space whether or not the session is active
handleKeyDown_unguarded(w, key) ==
  IF key = " "
  THEN IF moveToNextWordThrows(w) THEN w
       ELSE [moveToNextWord(w) EXCEPT !.inputValue = <<>>]
  ELSE LET w1 == IF key = "Enter" /\ ~w.isActive THEN startTest(w) ELSE w
       IN  IF key = "Escape" THEN resetTest(w1) ELSE w1

\* TypingTest.handleKeyDown(event); the custom events it dispatches run
\* startTest and resetTest before dispatchEvent returns
handleKeyDown(w, key) ==
  IF key = " " /\ w.isActive
  THEN IF moveToNextWordThrows(w) THEN w
       ELSE [moveToNextWord(w) EXCEPT !.inputValue = <<>>]
  ELSE LET w1 == IF key = "Enter" /\ ~w.isActive THEN startTest(w) ELSE w
       IN  IF key = "Escape" THEN resetTest(w1) ELSE w1

\* the interval callback calling onComplete() before stop()
intervalCallback_completeFirst(w, seconds) ==
  LET w1 == Called([w EXCEPT !.remainingTime = @ - seconds], "onTick")
  IN  IF w1.remainingTime <= 0
      THEN Timer_stop(handleTimerComplete(
             Called(w1, IF w1.isRunning THEN "timerComplete of a running timer"
                        ELSE "timerComplete")))
      ELSE w1

\* the callback Timer.start() passes to setInterval, seconds being the
\* growth of elapsedSeconds since the previous callback; the log tells
\* whether onComplete found the timer stopped
intervalCallback(w, seconds) ==
  LET w1 == Called([w EXCEPT !.remainingTime = @ - seconds], "onTick")
      w2 == Timer_stop(w1)
  IN  IF w1.remainingTime <= 0
      THEN handleTimerComplete(
             Called(w2, IF w2.isRunning THEN "timerComplete of a running timer"
                        ELSE "timerComplete"))
      ELSE w1

\* ------------------------------------- the global-state implementation
Max(a, b) == IF a >= b THEN a ELSE b

\* content.replace(/\s+/g, ' '): every run of spaces becomes one space
RECURSIVE CollapseSpaces(_)
CollapseSpaces(s) ==
  IF Len(s) < 2 THEN s
  ELSE IF s[1] = " " /\ s[2] = " " THEN CollapseSpaces(Tail(s))
  ELSE <<s[1]>> \o CollapseSpaces(Tail(s))

\* processTextContent(content)
processTextContent(content) ==
  SelectSeq(Split(Trim(CollapseSpaces(content))), LAMBDA word : Len(word) > 0)

\* processCurrentWord(word, currentInput): the character counts it returns
processCurrentWord(word, currentInput) ==
  LET typedPositions == { j \in 1..Len(word) : j <= Len(currentInput) }
      matching == { j \in typedPositions : currentInput[j] = word[j] }
  IN  [ correctChars |-> Cardinality(matching),
        totalChars |-> Cardinality(typedPositions)
                         + (IF Len(currentInput) > Len(word)
                            THEN Len(currentInput) - Len(word) ELSE 0) ]

\* processPreviousWord(word, typedInput): the character counts it returns
processPreviousWord(word, typedInput) ==
  LET positions == 1..Max(Len(word), Len(typedInput))
      matching == { j \in positions : /\ j <= Len(word)
                                      /\ j <= Len(typedInput)
                                      /\ typedInput[j] = word[j] }
  IN  [ correctChars |-> Cardinality(matching),
        totalChars |-> Cardinality(positions) ]

\* what word i (counted from 0) adds to the counters in updateWordDisplay;
\* an empty string in wordInputs is falsy
WordCounts(w, i) ==
  IF i = w.window_currentWordIndex
  THEN processCurrentWord(w.window_allWords[i + 1], w.inputValue)
  ELSE IF /\ i < w.window_currentWordIndex
          /\ i + 1 <= Len(w.window_wordInputs)
          /\ w.window_wordInputs[i + 1] # <<>>
       THEN processPreviousWord(w.window_allWords[i + 1],
                                w.window_wordInputs[i + 1])
       ELSE [correctChars |-> 0, totalChars |-> 0]

RECURSIVE SumWordCounts(_, _)
SumWordCounts(w, n) ==
  IF n = 0 THEN [correctChars |-> 0, totalChars |-> 0]
  ELSE LET rest == SumWordCounts(w, n - 1)
           this == WordCounts(w, n - 1)
       IN  [ correctChars |-> rest.correctChars + this.correctChars,
             totalChars |-> rest.totalChars + this.totalChars ]

\* updateWordDisplay(): the counters are recomputed over all the words
updateWordDisplay(w) ==
  LET sum == SumWordCounts(w, Len(w.window_allWords))
  IN  Called([w EXCEPT !.window_totalCharactersTyped = sum.totalChars,
                       !.window_correctCharactersTyped = sum.correctChars],
             "updateWordDisplay")

\* checkWordAndAdvance(inputField); window.allWords[i] past the end is
\* undefined and equals no input value
checkWordAndAdvance(w) ==
  LET i == w.window_currentWordIndex
      isCorrect == i + 1 <= Len(w.window_allWords)
                     /\ w.inputValue = w.window_allWords[i + 1]
      w1 == [Called(w, "checkWordAndAdvance") EXCEPT
               !.window_wordInputs =
                  IF i + 1 <= Len(@) THEN [@ EXCEPT ![i + 1] = w.inputValue]
                  ELSE Append(@, w.inputValue),
               !.window_correctWordsCount = IF isCorrect THEN @ + 1 ELSE @,
               !.window_currentWordIndex = @ + 1,
               !.inputValue = <<>>]
  IN  IF w1.window_currentWordIndex >= Len(w1.window_allWords)
      THEN w1
      ELSE updateWordDisplay(w1)

\* startTimer() of timer.js: an interval that is running is cleared and a
\* new one is set
startTimer(w) ==
  [w EXCEPT !.window_timerInterval = TRUE, !.window_timerStarted = TRUE,
            !.window_timerFinished = FALSE]

\* startWpmTracking() of stats.js
startWpmTracking(w) ==
  [w EXCEPT !.window_typingStartTime = TRUE,
            !.window_wpmUpdateInterval = TRUE]

\* the keydown listener of the input field
inputKeydownListener(w, key) ==
  IF w.window_timerFinished THEN w
  ELSE LET w1 == IF ~w.window_timerStarted
                 THEN [startWpmTracking(startTimer(w)) EXCEPT
                         !.window_timerStarted = TRUE]
                 ELSE w
       IN  IF key = " " THEN checkWordAndAdvance(w1) ELSE w1

\* the input listener of the input field; the field holds the new value
inputInputListener(w) ==
  IF w.window_timerFinished
  THEN [w EXCEPT !.inputValue = <<>>]
  ELSE updateWordDisplay(w)

\* fetchAndProcessText() after callGPT() has resolved with content
fetchAndProcessTextResolved(w, content) ==
  updateWordDisplay([w EXCEPT !.window_allWords = processTextContent(content),
                              !.window_currentWordIndex = 0])

\* ------------------------------------------------------------ behaviour
\* the objects as init() has built them when it reaches its await of the
\* first loadNewText(), the page having found history in localStorage
InitialWorld(history) ==
  [ words |-> <<>>, currentWordIndex |-> 0, currentCharIndex |-> 0,
    correctChars |-> 0, totalChars |-> 0, totalKeystrokes |-> 0,
    isActive |-> FALSE, lastProcessedInput |-> <<>>,
    remainingTime |-> Duration, timerId |-> FALSE, isRunning |-> FALSE,
    intervals |-> 0,
    inputValue |-> <<>>, inputDisabled |-> TRUE, startDisabled |-> FALSE,
    resultsHidden |-> TRUE, wpmDisplay |-> 0, accuracyDisplay |-> 0,
    improvementIndicator |-> "", spaceKeyListener |-> FALSE,
    storedResults |-> history, pendingFetches |-> 0, initPending |-> TRUE,
    calls |-> <<>>, completed |-> FALSE, advances |-> 0, allExact |-> TRUE,
    resultsAtReset |-> Len(history), sessionsStarted |-> 0,
    inputEvents |-> 0,
    writeFailed |-> FALSE,
    window_allWords |-> <<>>,
    window_currentWordIndex |-> 0,
    window_wordInputs |-> <<>>,
    window_correctWordsCount |-> 0,
    window_totalCharactersTyped |-> 0,
    window_correctCharactersTyped |-> 0,
    window_timerStarted |-> FALSE,
    window_timerFinished |-> FALSE,
    window_timerInterval |-> FALSE,
    window_typingStartTime |-> FALSE,
    window_wpmUpdateInterval |-> FALSE,
    gptPending |-> 0,
    storedKind |-> IF history = <<>> THEN "absent" ELSE "list",
    wpmHistoryKind |-> "absent", wpmHistory |-> <<>>,
    returned |-> NoCall,
    textCache |-> [poetry |-> <<>>, quotable |-> <<>>, local |-> <<>>],
    latestPending |-> TRUE, charMarks |-> <<>>,
    setItemThrows |-> FALSE, now |-> 0 ]

\* the state is the one held by the record w
StateIs(w) ==
  /\ words = w.words
  /\ currentWordIndex = w.currentWordIndex
  /\ currentCharIndex = w.currentCharIndex
  /\ correctChars = w.correctChars
  /\ totalChars = w.totalChars
  /\ totalKeystrokes = w.totalKeystrokes
  /\ isActive = w.isActive
  /\ lastProcessedInput = w.lastProcessedInput
  /\ remainingTime = w.remainingTime
  /\ timerId = w.timerId
  /\ isRunning = w.isRunning
  /\ intervals = w.intervals
  /\ inputValue = w.inputValue
  /\ inputDisabled = w.inputDisabled
  /\ startDisabled = w.startDisabled
  /\ resultsHidden = w.resultsHidden
  /\ wpmDisplay = w.wpmDisplay
  /\ accuracyDisplay = w.accuracyDisplay
  /\ improvementIndicator = w.improvementIndicator
  /\ spaceKeyListener = w.spaceKeyListener
  /\ storedResults = w.storedResults
  /\ pendingFetches = w.pendingFetches
  /\ initPending = w.initPending
  /\ calls = w.calls
  /\ completed = w.completed
  /\ advances = w.advances
  /\ allExact = w.allExact
  /\ resultsAtReset = w.resultsAtReset
  /\ sessionsStarted = w.sessionsStarted
  /\ inputEvents = w.inputEvents
  /\ writeFailed = w.writeFailed
  /\ window_allWords = w.window_allWords
  /\ window_currentWordIndex = w.window_currentWordIndex
  /\ window_wordInputs = w.window_wordInputs
  /\ window_correctWordsCount = w.window_correctWordsCount
  /\ window_totalCharactersTyped = w.window_totalCharactersTyped
  /\ window_correctCharactersTyped = w.window_correctCharactersTyped
  /\ window_timerStarted = w.window_timerStarted
  /\ window_timerFinished = w.window_timerFinished
  /\ window_timerInterval = w.window_timerInterval
  /\ window_typingStartTime = w.window_typingStartTime
  /\ window_wpmUpdateInterval = w.window_wpmUpdateInterval
  /\ gptPending = w.gptPending
  /\ storedKind = w.storedKind
  /\ wpmHistoryKind = w.wpmHistoryKind
  /\ wpmHistory = w.wpmHistory
  /\ returned = w.returned
  /\ textCache = w.textCache
  /\ latestPending = w.latestPending
  /\ charMarks = w.charMarks

\* the page after init() has reached its await of the first loadNewText()
Init == \E history \in StoredHistories : StateIs(InitialWorld(history))

\* an input event on the field: the browser has put value into the field
InputEvent ==
  \E value \in InputValues :
    /\ ~inputDisabled
    /\ inputEvents < MaxKeystrokes
    /\ isActive \/ isRunning \/ sessionsStarted < MaxSessions
    /\ Commit(handleInput(
         [World EXCEPT !.inputValue = value,
                       !.inputEvents = @ + 1,
                       !.sessionsStarted =
                          IF isActive \/ isRunning THEN @ ELSE @ + 1]))

\* a keydown event on the field: TypingTest.handleKeyDown, then the space
\* key listener of app.js if startTest had registered one; only the space
\* key can end a session and so reach setItem, which may throw
KeyDown ==
  \E key \in Keys :
  \E throws \in IF key = " " THEN BOOLEAN ELSE {FALSE} :
    /\ ~inputDisabled
    /\ key \in {"Enter", "Escape"} => pendingFetches < MaxFetches
    /\ LET w1 == handleKeyDown([World EXCEPT !.setItemThrows = throws], key)
       IN  Commit(IF spaceKeyListener THEN spaceKeyHandler(w1, key) ELSE w1)

\* a click on the Start button
ClickStart ==
  /\ ~startDisabled
  /\ pendingFetches < MaxFetches
  /\ Commit(startTest(World))

\* a click on the Reset button
ClickReset ==
  /\ pendingFetches < MaxFetches
  /\ Commit(resetTest(World))

\* the interval of a running timer fires
TimerTick ==
  \E seconds \in {TickSeconds}, throws \in BOOLEAN :
    /\ intervals > 0
    /\ Commit(intervalCallback([World EXCEPT !.setItemThrows = throws],
                                seconds))

\* fetchText() of a loadNewText() started by resetTest resolves
FetchResolved ==
  \E text \in Texts :
    /\ pendingFetches > 0
    /\ Commit(loadNewTextResolved(
                [World EXCEPT !.pendingFetches = @ - 1], text))

\* fetchText() of the loadNewText() started by init resolves, and init
\* continues
InitFetchResolved ==
  \E text \in Texts :
    /\ initPending
    /\ Commit([loadNewTextResolved([World EXCEPT !.initPending = FALSE], text)
                 EXCEPT !.startDisabled = FALSE])

Next ==
  \/ InputEvent
  \/ KeyDown
  \/ ClickStart
  \/ ClickReset
  \/ TimerTick
  \/ FetchResolved
  \/ InitFetchResolved

Spec == Init /\ [][Next]_vars

\* ------------------------------- the page with an interval that keeps firing
\* an input event on the field that leaves one letter in it; sessions are
\* limited by the input events alone
LiveInput ==
  \E value \in {<<"a">>} :
    /\ ~inputDisabled
    /\ inputEvents < MaxKeystrokes
    /\ Commit(handleInput([World EXCEPT !.inputValue = value,
                                        !.inputEvents = @ + 1]))

NextLive ==
  \/ LiveInput
  \/ KeyDown
  \/ ClickStart
  \/ ClickReset
  \/ TimerTick
  \/ FetchResolved
  \/ InitFetchResolved

\* the interval callback seen on the timer: remainingTime falls by the
\* seconds gone by while an interval is set; of the page's steps these are
\* the steps of TimerTick and no others (Timer.reset sets the duration,
\* every other handler leaves remainingTime alone)
TickOccurs ==
  intervals > 0 /\ remainingTime' = remainingTime - TickSeconds

\* setInterval repeats its callback until clearInterval: an interval that
\* stays set fires again
SpecLive ==
  Init /\ [][NextLive]_vars /\ WF_remainingTime(TickOccurs)

\* ------------------------------------- the page with its requests in order
\* the log entry of a resolution: of the loadNewText call made last, or of
\* one made before it
Resolution(latest) ==
  IF latest THEN "fetchText of the latest loadNewText resolved"
  ELSE "fetchText of an earlier loadNewText resolved"

\* fetchText() of a loadNewText() started by resetTest resolves: of the
\* call made last if that one is pending, or of any other pending one, as
\* nothing orders the responses
RequestResolved ==
  \E text \in Texts, latest \in BOOLEAN :
    /\ pendingFetches > 0
    /\ latest => latestPending
    /\ ~latest => pendingFetches > (IF latestPending THEN 1 ELSE 0)
    /\ Commit(loadNewTextResolved(
                Called([World EXCEPT !.pendingFetches = @ - 1,
                                     !.latestPending = @ /\ ~latest],
                       Resolution(latest)), text))

\* fetchText() of the loadNewText() started by init resolves, and init
\* continues; init's call is the one made last as long as no resetTest
\* has made another
InitRequestResolved ==
  \E text \in Texts, latest \in {latestPending /\ pendingFetches = 0} :
    /\ initPending
    /\ Commit([loadNewTextResolved(
                  Called([World EXCEPT !.initPending = FALSE,
                                       !.latestPending = @ /\ ~latest],
                         Resolution(latest)), text)
                 EXCEPT !.startDisabled = FALSE])

NextRequests ==
  \/ InputEvent
  \/ KeyDown
  \/ ClickStart
  \/ ClickReset
  \/ TimerTick
  \/ RequestResolved
  \/ InitRequestResolved

SpecRequests == Init /\ [][NextRequests]_vars

\* ------------------------------------------- a session typed word by word
\* texts of the sessions typed word by word
TypingTexts ==
  { <<"c", "a", "t", " ", "d", "o", "g">>,
    <<"h", "e", "l", "l", "o">>,
    <<"a", "b", " ", "a">> }

\* values the input field holds when an input event arrives
TypingValues ==
  { <<>>, <<"a">>, <<"a", "b">>, <<"a", "b", " ">>, <<"a", "b", "b">>,
    <<"c", "a", "t">>, <<"c", "a", "t", "x", "x">>, <<"d", "o", "g">>,
    <<"h", "e", "l", "l", "o">>, <<"h", "x", "l", "l", "o">> }

\* the page once init() has finished: the first loadNewText() has resolved
\* with one of the texts, and nothing is stored yet
InitTyping ==
  \E text \in TypingTexts :
    StateIs([loadNewTextResolved(
               [InitialWorld(<<>>) EXCEPT !.initPending = FALSE,
                                          !.latestPending = FALSE], text)
               EXCEPT !.startDisabled = FALSE, !.calls = <<>>])

\* an input event on the field
TypingInput ==
  \E value \in TypingValues :
    /\ ~inputDisabled
    /\ totalKeystrokes < MaxKeystrokes
    /\ Commit(handleInput(
         [World EXCEPT !.inputValue = value,
                       !.sessionsStarted = IF isActive THEN @ ELSE @ + 1]))

\* a keydown event of the space key on the field
TypingSpace ==
  /\ ~inputDisabled
  /\ LET w1 == handleKeyDown(World, " ")
     IN  Commit(IF spaceKeyListener THEN spaceKeyHandler(w1, " ") ELSE w1)

\* the interval of the running timer fires, half a minute having passed
TypingTick ==
  \E seconds \in {30} :
    /\ intervals > 0
    /\ Commit(intervalCallback(World, seconds))

NextTyping ==
  \/ TypingInput
  \/ TypingSpace
  \/ TypingTick

SpecTyping == InitTyping /\ [][NextTyping]_vars

\* --------------------------------------------- the global-state page
\* contents callGPT() resolves with
GlobalContents ==
  { <<"a", "b", " ", "a">>, <<" ", "b", " ", " ", "a", "b">> }

\* values the input field holds when an input event arrives
GlobalValues == { <<>>, <<"a">>, <<"b">>, <<"a", "b">>, <<"a", "b", "b">> }

\* the global-state page after init() has returned: the text is being
\* fetched and the field is empty
InitGlobal ==
  StateIs([InitialWorld(<<>>) EXCEPT !.inputDisabled = FALSE,
                                    !.initPending = FALSE,
                                    !.latestPending = FALSE,
                                    !.gptPending = 1])

\* an input event on the field
GlobalInput ==
  \E value \in GlobalValues :
    /\ ~inputDisabled
    /\ Commit(inputInputListener([World EXCEPT !.inputValue = value]))

\* a keydown event on the field
GlobalKeyDown ==
  \E key \in {" ", "a"} :
    /\ ~inputDisabled
    /\ window_currentWordIndex < Len(window_allWords) + MaxOverrun
    /\ Commit(inputKeydownListener(World, key))

\* callGPT() of the pending fetchAndProcessText() resolves
GlobalFetchResolved ==
  \E content \in GlobalContents :
    /\ gptPending > 0
    /\ Commit(fetchAndProcessTextResolved(
                [World EXCEPT !.gptPending = @ - 1], content))

\* callGPT() of the pending fetchAndProcessText() rejects: the catch
\* block shows an error text and the words stay as they were
GlobalFetchRejected ==
  /\ gptPending > 0
  /\ Commit([World EXCEPT !.gptPending = @ - 1])

NextGlobal ==
  \/ GlobalInput
  \/ GlobalKeyDown
  \/ GlobalFetchResolved
  \/ GlobalFetchRejected

SpecGlobal == InitGlobal /\ [][NextGlobal]_vars

\* ------------------------------------------ the history store on its own
\* wpm and accuracy of the results that are saved, and the instants of saving
SavedWpm == {0, 3}

SavedAccuracy == {100}

SaveTimes == {1, 2}

\* the page finds any kind of entry under each of the two keys
InitStorage ==
  \E kind \in StorageKinds, history \in StoredHistories,
     typingKind \in StorageKinds, typingHistory \in TypingHistories :
    /\ kind # "list" => history = <<>>
    /\ typingKind # "list" => typingHistory = <<>>
    /\ StateIs([InitialWorld(history) EXCEPT
                  !.storedKind = kind,
                  !.wpmHistoryKind = typingKind,
                  !.wpmHistory = typingHistory])

\* saveResult(createTestResult(wpm, accuracy)); threw records whether the
\* environment made setItem throw
StorageSave ==
  \E wpm \in SavedWpm, accuracy \in SavedAccuracy, time \in SaveTimes,
     throws \in BOOLEAN :
    /\ Len(storedResults) < MaxStored
    /\ LET result == createTestResult(wpm, accuracy, time)
           w1 == saveResult([World EXCEPT !.setItemThrows = throws,
                                          !.writeFailed = FALSE], result)
       IN  Commit([w1 EXCEPT !.returned =
                     [ op |-> "saveResult",
                       ok |-> \E i \in 1..Len(w1.calls) :
                                w1.calls[i].name = "saveResult returned true",
                       threw |-> throws, arg |-> result,
                       value |-> JSNull ]])

\* getResults()
StorageGetResults ==
  \E value \in {getResults(World)} :
    Commit([World EXCEPT !.returned =
              [ op |-> "getResults", ok |-> TRUE, threw |-> FALSE,
                arg |-> <<>>, value |-> value ]])

\* getTypingHistory()
StorageGetTypingHistory ==
  \E result \in {getTypingHistory(World)} :
    Commit([World EXCEPT !.returned =
              [ op |-> "getTypingHistory", ok |-> ~result.threw,
                threw |-> result.threw, arg |-> <<>>,
                value |-> result.value ]])

NextStorage ==
  \/ StorageSave
  \/ StorageGetResults
  \/ StorageGetTypingHistory

SpecStorage == InitStorage /\ [][NextStorage]_vars

\* ------------------------------------------------------------ textService
\* the content of a text entry that has no content property
Undefined == <<"undefined">>

Punctuation == {".", ",", ":", ";", "!", "?"}

\* text.trim().replace(/[.,:;!?]$/, '')
CleanText(text) ==
  LET trimmed == Trim(text)
  IN  IF Len(trimmed) > 0 /\ trimmed[Len(trimmed)] \in Punctuation
      THEN SubSeq(trimmed, 1, Len(trimmed) - 1)
      ELSE trimmed

\* texts.join('. ')
RECURSIVE JoinTexts(_)
JoinTexts(texts) ==
  IF Len(texts) = 0 THEN <<>>
  ELSE IF Len(texts) = 1 THEN texts[1]
  ELSE texts[1] \o <<".", " ">> \o JoinTexts(Tail(texts))

\* the built-in phrase, its final full stop apart
DefaultText ==
  << "The quick brown fox jumps over the lazy dog. This is a simple text for typing practice",
     "." >>

\* Math.floor(Math.random() * length), random being the draw
RandomIndex(random, length) == (random % length) + 1

\* fetchFromLocalJSON(): response is what fetch(LOCAL_TEXTS_PATH) and
\* response.json() give should the cache be empty, ok FALSE standing for a
\* rejected fetch, a status that is not ok or JSON that does not parse
fetchFromLocalJSON(w, response, random) ==
  IF Len(w.textCache.local) > 0
  THEN [ threw |-> FALSE, w |-> w,
         text |-> w.textCache.local[RandomIndex(random,
                                                Len(w.textCache.local))] ]
  ELSE IF response.ok /\ Len(response.texts) > 0
  THEN [ threw |-> FALSE,
         w |-> [w EXCEPT !.textCache.local = @ \o response.texts],
         text |-> response.texts[RandomIndex(random, Len(response.texts))] ]
  ELSE [ threw |-> TRUE, w |-> w, text |-> <<>> ]

\* push on a cache of an API, the oldest entry leaving beyond CACHE_LIMIT
CachePush(cache, text) ==
  IF Len(cache) + 1 > CACHE_LIMIT THEN Tail(Append(cache, text))
  ELSE Append(cache, text)

\* fetchFromPoetryAPI(): the lines of the first poem joined, when the
\* response is an array that has one
fetchFromPoetryAPI(w, response, random) ==
  IF Len(w.textCache.poetry) > 0
  THEN [ threw |-> FALSE, w |-> w,
         text |-> w.textCache.poetry[RandomIndex(random,
                                                 Len(w.textCache.poetry))] ]
  ELSE IF response.ok /\ Len(response.texts) > 0
  THEN [ threw |-> FALSE,
         w |-> [w EXCEPT !.textCache.poetry = CachePush(@, response.texts[1])],
         text |-> response.texts[1] ]
  ELSE [ threw |-> TRUE, w |-> w, text |-> <<>> ]

\* fetchFromQuotableAPI(): data.content, when there is one
fetchFromQuotableAPI(w, response, random) ==
  IF Len(w.textCache.quotable) > 0
  THEN [ threw |-> FALSE, w |-> w,
         text |-> w.textCache.quotable[RandomIndex(random,
                                                   Len(w.textCache.quotable))] ]
  ELSE IF response.ok /\ Len(response.texts) > 0
          /\ response.texts[1] # Undefined /\ response.texts[1] # <<>>
  THEN [ threw |-> FALSE,
         w |-> [w EXCEPT !.textCache.quotable =
                            CachePush(@, response.texts[1])],
         text |-> response.texts[1] ]
  ELSE [ threw |-> TRUE, w |-> w, text |-> <<>> ]

\* the call fetchFunction() of fetchMultipleTexts
FetchOne(w, fetchFunction, response, random) ==
  IF fetchFunction = "fetchFromLocalJSON"
  THEN fetchFromLocalJSON(w, response, random)
  ELSE IF fetchFunction = "fetchFromPoetryAPI"
  THEN fetchFromPoetryAPI(w, response, random)
  ELSE fetchFromQuotableAPI(w, response, random)

\* the loop of fetchMultipleTexts from its i-th round on; trim() of an
\* undefined text throws
RECURSIVE FetchLoop(_, _, _, _, _, _, _)
FetchLoop(w, fetchFunction, response, randoms, count, i, texts) ==
  IF i > count
  THEN [ threw |-> FALSE, w |-> w,
         text |-> Append(JoinTexts(texts), ".") ]
  ELSE LET one == FetchOne(w, fetchFunction, response, randoms[i])
       IN  IF one.threw \/ one.text = Undefined
           THEN [ threw |-> TRUE, w |-> Called(one.w, "fetchMultipleTexts threw"),
                  text |-> <<>> ]
           ELSE FetchLoop(one.w, fetchFunction, response, randoms, count,
                          i + 1, Append(texts, CleanText(one.text)))

\* fetchMultipleTexts(fetchFunction, count)
fetchMultipleTexts(w, fetchFunction, response, randoms, count) ==
  FetchLoop(w, fetchFunction, response, randoms, count, 1, <<>>)

\* fetchText() rejecting when the APIs fail too
fetchText_noFallback(w, local, poetry, randoms) ==
  LET localText == fetchMultipleTexts(w, "fetchFromLocalJSON", local, randoms,
                                      TEXT_MULTIPLIER)
  IN  IF ~localText.threw THEN localText
      ELSE fetchMultipleTexts(localText.w, "fetchFromPoetryAPI", poetry,
                              randoms, TEXT_MULTIPLIER)

\* fetchText(): Promise.race of two promises that are both resolved is
\* settled by the first, fetchFromPoetryAPI
fetchText(w, local, poetry, randoms) ==
  LET localText == fetchMultipleTexts(w, "fetchFromLocalJSON", local, randoms,
                                      TEXT_MULTIPLIER)
      fetchFunction == "fetchFromPoetryAPI"
      text == fetchMultipleTexts(localText.w, fetchFunction, poetry, randoms,
                                 TEXT_MULTIPLIER)
  IN  IF ~localText.threw THEN localText
      ELSE IF ~text.threw THEN text
      ELSE [ threw |-> FALSE, w |-> text.w,
             text |-> Append(JoinTexts([i \in 1..TEXT_MULTIPLIER |->
                                          DefaultText]), ".") ]

\* prefetchTexts(): each source is asked once and its failure swallowed
prefetchTexts(w, poetry, quotable, local) ==
  LET w1 == fetchFromPoetryAPI(w, poetry, 0).w
      w2 == fetchFromQuotableAPI(w1, quotable, 0).w
  IN  fetchFromLocalJSON(w2, local, 0).w

\* --------------------------------------------- the text service on its own
\* what a source answers: nothing usable, or its texts
LocalResponses ==
  { [ok |-> FALSE, texts |-> <<>>],
    [ok |-> TRUE, texts |-> <<>>],
    [ok |-> TRUE, texts |-> << <<"a", ".">> >>],
    [ok |-> TRUE, texts |-> << <<"a">>, <<"b", " ">> >>],
    [ok |-> TRUE, texts |-> << <<" ", "a">>, Undefined >>] }

ApiResponses ==
  { [ok |-> FALSE, texts |-> <<>>],
    [ok |-> TRUE, texts |-> << <<"b", "!">> >>],
    [ok |-> TRUE, texts |-> << <<"a", " ", "b">> >>] }

\* the draws of Math.random() in one call of fetchText
RandomDraws == [1..TEXT_MULTIPLIER -> {0, 1}]

\* the module has been loaded; the prefetch it starts has not come back
InitText == StateIs(InitialWorld(<<>>))

\* fetchText() from its call to the settling of its promise
TextFetch ==
  \E local \in LocalResponses, poetry \in ApiResponses, randoms \in RandomDraws :
    \E result \in {fetchText([World EXCEPT !.calls = <<>>], local, poetry,
                             randoms)} :
      /\ Commit([result.w EXCEPT !.returned =
                   [ op |-> "fetchText", ok |-> ~result.threw,
                     threw |-> result.threw, arg |-> result.text,
                     value |-> JSNull ]])

\* the requests of a prefetchTexts() come back
TextPrefetch ==
  \E poetry \in ApiResponses, quotable \in ApiResponses,
     local \in LocalResponses :
    /\ Commit(prefetchTexts([World EXCEPT !.calls = <<>>], poetry, quotable,
                            local))

NextText ==
  \/ TextFetch
  \/ TextPrefetch

SpecText == InitText /\ [][NextText]_vars

\* ------------------------------------ the caches of the text service
\* what fetch(LOCAL_TEXTS_PATH) answers when it serves data/texts.json as
\* the repository ships it: twelve texts
TextsFile ==
  [ok |-> TRUE, texts |-> [i \in 1..12 |-> <<"a", ".">>]]

\* what the local source answers: nothing usable, texts, or the file
CacheLocalResponses == LocalResponses \cup {TextsFile}

\* fetchText() from its call to the settling of its promise
CacheFetch ==
  \E local \in CacheLocalResponses, poetry \in ApiResponses,
     randoms \in RandomDraws :
    \E result \in {fetchText([World EXCEPT !.calls = <<>>], local, poetry,
                             randoms)} :
      /\ Commit([result.w EXCEPT !.returned =
                   [ op |-> "fetchText", ok |-> ~result.threw,
                     threw |-> result.threw, arg |-> result.text,
                     value |-> JSNull ]])

\* the requests of a prefetchTexts() come back
CachePrefetch ==
  \E poetry \in ApiResponses, quotable \in ApiResponses,
     local \in CacheLocalResponses :
    /\ Commit(prefetchTexts([World EXCEPT !.calls = <<>>], poetry, quotable,
                            local))

NextCache ==
  \/ CacheFetch
  \/ CachePrefetch

SpecCache == InitText /\ [][NextCache]_vars

\* ------------------------------------- the statistics functions on their own
\* a JavaScript number that is an integer, and NaN
JSNumber(n) == [isNaN |-> FALSE, n |-> n]

NaN == [isNaN |-> TRUE, n |-> 0]

\* an optional argument: left out, or a count
OptionalCounts ==
  {[defined |-> FALSE, n |-> 0]} \cup
  {[defined |-> TRUE, n |-> n] : n \in 0..2}

\* Math.round((a / b) * 100) for a >= 0 and b >= 0
RoundPercent(a, b) ==
  IF b = 0 THEN (IF a = 0 THEN NaN ELSE JSNumber(0)) ELSE JSNumber(Round(100 * a, b))

\* calculateAccuracy(correctChars, totalChars, totalKeystrokes,
\* incorrectChars) of the statistics module with optional arguments
calculateAccuracy_optional(correct, total, keystrokes, incorrectChars) ==
  IF total = 0 THEN JSNumber(100)
  ELSE IF incorrectChars.defined
  THEN RoundPercent(correct, correct + incorrectChars.n)
  ELSE IF keystrokes.defined /\ keystrokes.n # 0
          /\ keystrokes.n > total
  THEN RoundPercent(correct, keystrokes.n)
  ELSE RoundPercent(correct, total)

\* calculateAccuracy() of stats.js, over the counters of the page
stats_calculateAccuracy(w) ==
  IF w.window_totalCharactersTyped > 0
  THEN Round(100 * w.window_correctCharactersTyped,
             w.window_totalCharactersTyped)
  ELSE 0

InitStats == StateIs(InitialWorld(<<>>))

\* calculateWPM(correctChars, timeInSeconds)
StatsWPM ==
  \E correct \in 0..MaxChars, seconds \in (0 - MaxSeconds)..MaxSeconds :
    /\ Commit([World EXCEPT !.returned =
                 [ op |-> "calculateWPM", ok |-> TRUE, threw |-> FALSE,
                   arg |-> <<correct, seconds>>,
                   value |-> JSNumber(calculateWPM(correct, seconds)) ]])

\* calculateAccuracy(correctChars, totalChars)
StatsAccuracy ==
  \E correct \in 0..MaxChars, total \in 0..MaxChars :
    /\ Commit([World EXCEPT !.returned =
                 [ op |-> "calculateAccuracy", ok |-> TRUE, threw |-> FALSE,
                   arg |-> <<correct, total>>,
                   value |-> JSNumber(calculateAccuracy(correct, total)) ]])

\* calculateAccuracy() of stats.js with the counters of the page at these
\* values
StatsPageAccuracy ==
  \E correct \in 0..MaxChars, total \in 0..MaxChars :
    LET w == [World EXCEPT !.window_correctCharactersTyped = correct,
                           !.window_totalCharactersTyped = total]
    IN  /\ correct <= total
        /\ Commit([w EXCEPT !.returned =
                     [ op |-> "stats.calculateAccuracy", ok |-> TRUE,
                       threw |-> FALSE, arg |-> <<correct, total>>,
                       value |-> JSNumber(stats_calculateAccuracy(w)) ]])

\* calculateAccuracy with its optional arguments given or left out
StatsOptionalAccuracy ==
  \E correct \in 0..MaxChars, total \in 0..MaxChars,
     keystrokes \in OptionalCounts, incorrectChars \in OptionalCounts :
    /\ Commit([World EXCEPT !.returned =
                 [ op |-> "calculateAccuracy with optional arguments",
                   ok |-> TRUE, threw |-> FALSE,
                   arg |-> <<correct, total, keystrokes, incorrectChars>>,
                   value |-> calculateAccuracy_optional(
                               correct, total, keystrokes,
                               incorrectChars) ]])

NextStats ==
  \/ StatsWPM
  \/ StatsAccuracy
  \/ StatsPageAccuracy
  \/ StatsOptionalAccuracy

SpecStats == InitStats /\ [][NextStats]_vars

\* ------------------------------------ the marks of the character elements
\* renderText(): a new element for every character of every word, none of
\* them marked
renderText(w) ==
  [w EXCEPT !.charMarks =
     [i \in 1..Len(w.words) |-> [j \in 1..Len(w.words[i]) |-> "none"]]]

\* the number of leading positions below minLength at which the input and
\* lastProcessedInput agree: firstDiffIndex after the while loop
RECURSIVE FirstDiffIndex(_, _, _, _)
FirstDiffIndex(input, last, minLength, i) ==
  IF i < minLength /\ input[i + 1] = last[i + 1]
  THEN FirstDiffIndex(input, last, minLength, i + 1)
  ELSE i

\* the marks processInput(input) leaves, w being the object when it is
\* called: from firstDiffIndex on the marks of the current word are removed,
\* and set again for the positions the input reaches
processInputMarks(w, input) ==
  IF EndsWithSpace(input) \/ ~CurrentWordDefined(w) THEN w.charMarks
  ELSE LET currentWord == CurrentWord(w)
           last == w.lastProcessedInput
           minLength == Min(Min(Len(input), Len(last)), Len(currentWord))
           firstDiffIndex == FirstDiffIndex(input, last, minLength, 0)
       IN  [w.charMarks EXCEPT ![w.currentWordIndex + 1] =
              [j \in 1..Len(currentWord) |->
                 IF j - 1 < firstDiffIndex THEN @[j]
                 ELSE IF j - 1 >= Len(input) THEN "none"
                 ELSE IF input[j] = currentWord[j] THEN "correct"
                 ELSE "incorrect"]]

\* the page once init() has finished, its text rendered
InitMarks ==
  \E text \in TypingTexts :
    StateIs(renderText(
      [loadNewTextResolved(
         [InitialWorld(<<>>) EXCEPT !.initPending = FALSE,
                                    !.latestPending = FALSE], text)
         EXCEPT !.startDisabled = FALSE, !.calls = <<>>]))

\* an input event on the field
MarksInput ==
  \E value \in TypingValues :
    /\ ~inputDisabled
    /\ inputEvents < MaxKeystrokes
    /\ Commit([handleInput([World EXCEPT !.inputValue = value,
                                         !.inputEvents = @ + 1])
                 EXCEPT !.charMarks = processInputMarks(World, value)])

\* a keydown event of the space key on the field; moveToNextWord leaves
\* the marks alone
MarksSpace ==
  /\ ~inputDisabled
  /\ Commit(handleKeyDown(World, " "))

\* a click on the Reset button
MarksReset ==
  /\ pendingFetches < MaxFetches
  /\ Commit(resetTest(World))

\* fetchText() of the loadNewText() started by resetTest resolves, and
\* setText renders the new text
MarksFetchResolved ==
  \E text \in TypingTexts :
    /\ pendingFetches > 0
    /\ Commit(renderText(loadNewTextResolved(
                [World EXCEPT !.pendingFetches = @ - 1], text)))

NextMarks ==
  \/ MarksInput
  \/ MarksSpace
  \/ MarksReset
  \/ MarksFetchResolved

SpecMarks == InitMarks /\ [][NextMarks]_vars

\* ------------------------- the TypingTest of src/js/typingTest.js
\* TypingTest.reset() of typingTest.js
typingTest_reset(w) ==
  updateStats(Called(
    [w EXCEPT !.currentWordIndex = 0, !.currentCharIndex = 0,
              !.correctChars = 0, !.totalChars = 0,
              !.isActive = FALSE, !.inputValue = <<>>,
              !.inputDisabled = FALSE,
              !.completed = FALSE, !.advances = 0, !.allExact = TRUE,
              !.writeFailed = FALSE,
              !.resultsAtReset = Len(w.storedResults)],
    "reset"))

\* TypingTest.setText(text) of typingTest.js
typingTest_setText(w, text) ==
  typingTest_reset(Called([w EXCEPT !.words = Split(text)], "setText"))

\* TypingTest.moveToNextWord() of typingTest.js: the word counts as correct
\* only when the trimmed field value equals it
typingTest_moveToNextWord(w) ==
  LET currentWord == CurrentWord(w)
      typed == Trim(w.inputValue)
      w1 == [Called(w, "moveToNextWord") EXCEPT
               !.correctChars = IF typed = currentWord
                                THEN @ + Len(currentWord) + 1 ELSE @,
               !.totalChars = @ + Len(currentWord) + 1,
               !.currentWordIndex = @ + 1,
               !.currentCharIndex = 0,
               !.inputValue = <<>>,
               !.advances = @ + 1,
               !.allExact = @ /\ typed = currentWord]
  IN  IF w1.currentWordIndex >= Len(w1.words)
      THEN complete(w1)
      ELSE updateStats(w1)

\* TypingTest.processInput(input) of typingTest.js, when it does not throw
typingTest_processInput(w, input) ==
  IF EndsWithSpace(input) /\ Trim(input) = CurrentWord(w)
  THEN typingTest_moveToNextWord(w)
  ELSE LET inputWithoutSpace ==
             IF EndsWithSpace(input) THEN SubSeq(input, 1, Len(input) - 1)
             ELSE input
       IN  [w EXCEPT !.currentCharIndex = Len(inputWithoutSpace),
                     !.lastProcessedInput = inputWithoutSpace]

\* TypingTest.handleInput(event) of typingTest.js; with no current word
\* processInput throws at currentWord.length and the handler ends there
typingTest_handleInput(w) ==
  LET w1 == IF ~w.isActive
            THEN handleTestStart(Called([w EXCEPT !.isActive = TRUE],
                                        "onStart"))
            ELSE w
  IN  IF EndsWithSpace(w1.inputValue) /\ CurrentWordDefined(w1)
         /\ Trim(w1.inputValue) = CurrentWord(w1)
      THEN typingTest_moveToNextWord(w1)
      ELSE IF ~CurrentWordDefined(w1) THEN w1
      ELSE updateStats(typingTest_processInput(w1, w1.inputValue))

\* handleKeyDown advancing on every space
typingTest_handleKeyDown_anyInput(w, key) ==
  IF key = " " /\ CurrentWordDefined(w)
  THEN typingTest_moveToNextWord(w)
  ELSE w

\* TypingTest.handleKeyDown(event) of typingTest.js, for the space key
typingTest_handleKeyDown(w, key) ==
  IF key = " " /\ CurrentWordDefined(w)
     /\ Trim(w.inputValue) = CurrentWord(w)
  THEN typingTest_moveToNextWord(w)
  ELSE w

\* the space key listener created by startTest, on this TypingTest
typingTest_spaceKeyHandler(w, key) ==
  IF key = " " /\ w.isActive /\ CurrentWordDefined(w)
     /\ Trim(w.inputValue) = CurrentWord(w)
  THEN typingTest_moveToNextWord(w)
  ELSE w

\* the page once a loadNewText() has resolved, before a click on Start or
\* after one
InitExact ==
  \E text \in TypingTexts, listener \in BOOLEAN :
    StateIs([typingTest_setText(
               [InitialWorld(<<>>) EXCEPT !.initPending = FALSE,
                                          !.latestPending = FALSE,
                                          !.spaceKeyListener = listener],
               text)
               EXCEPT !.inputDisabled = FALSE, !.startDisabled = FALSE,
                      !.calls = <<>>])

\* an input event on the field
ExactInput ==
  \E value \in TypingValues :
    /\ ~inputDisabled
    /\ inputEvents < MaxKeystrokes
    /\ Commit(typingTest_handleInput(
         [World EXCEPT !.inputValue = value, !.inputEvents = @ + 1]))

\* a keydown event of the space key on the field: the listener of the
\* constructor runs, then the one startTest added
ExactSpace ==
  /\ ~inputDisabled
  /\ LET w1 == typingTest_handleKeyDown(World, " ")
     IN  Commit(IF spaceKeyListener
                THEN typingTest_spaceKeyHandler(w1, " ") ELSE w1)

\* the interval of the running timer fires, half a minute having passed
ExactTick ==
  \E seconds \in {30} :
    /\ intervals > 0
    /\ Commit(intervalCallback(World, seconds))

\* a later loadNewText() resolves and sets another text
ExactSetText ==
  \E text \in TypingTexts :
    /\ Commit([typingTest_setText(World, text)
                 EXCEPT !.inputDisabled = FALSE])

NextExact ==
  \/ ExactInput
  \/ ExactSpace
  \/ ExactTick
  \/ ExactSetText

SpecExact == InitExact /\ [][NextExact]_vars

\* ------------------------------------- the improvement check of stats.js
\* the attempt at the head of the list once sorted by timestamp, latest
\* first; Array.prototype.sort is stable, so of equal timestamps the one
\* that came first stays first
LatestFirst(attempts) ==
  attempts[CHOOSE i \in 1..Len(attempts) :
             \A j \in 1..Len(attempts) :
               /\ attempts[j].timestamp.time <= attempts[i].timestamp.time
               /\ j < i =>
                    attempts[j].timestamp.time < attempts[i].timestamp.time]

\* getMostRecentPreviousAttempt(): null (here the empty sequence) for an
\* empty history; otherwise a copy of the history, its last record taken
\* off if it has more than one, sorted latest first, and the head of that
getMostRecentPreviousAttempt(w) ==
  LET history == getTypingHistory(w).value.items
      previousAttempts == IF Len(history) > 1
                          THEN SubSeq(history, 1, Len(history) - 1)
                          ELSE history
  IN  IF Len(history) = 0 THEN <<>> ELSE <<LatestFirst(previousAttempts)>>

\* checkImprovement(currentWpm, currentAccuracy): the attempt compared
\* against and the improved flag
checkImprovement(w, currentWpm, currentAccuracy) ==
  LET previousAttempt == getMostRecentPreviousAttempt(w)
  IN  IF previousAttempt = <<>>
      THEN [previousAttempt |-> <<>>, improved |-> FALSE]
      ELSE [ previousAttempt |-> previousAttempt,
             improved |-> \/ currentWpm > previousAttempt[1].wpm
                          \/ currentAccuracy > previousAttempt[1].accuracy ]

\* createTypingRecord(wpm, accuracy) at the instant time
createTypingRecord(w, wpm, accuracy, time) ==
  [ timestamp |-> [type |-> "string", time |-> time], wpm |-> wpm,
    wordsCompleted |-> w.window_correctWordsCount,
    totalWords |-> w.window_currentWordIndex, accuracy |-> accuracy ]

\* wpm and accuracy of attempts
AttemptWpm == {0, 2, 3}

AttemptAccuracy == {50, 100}

\* histories saveTypingRecord has written: record i saved at instant i
AttemptHistories ==
  UNION { { [i \in 1..k |->
               [ timestamp |-> [type |-> "string", time |-> i],
                 wpm |-> f[i][1], wordsCompleted |-> 0, totalWords |-> 0,
                 accuracy |-> f[i][2] ]] :
            f \in [1..k -> AttemptWpm \X AttemptAccuracy] } :
          k \in 0..MaxStored }

\* the page finds a history of attempts under 'wpmHistory'
InitImprovement ==
  \E history \in AttemptHistories :
    StateIs([InitialWorld(<<>>) EXCEPT
               !.initPending = FALSE, !.latestPending = FALSE,
               !.wpmHistoryKind = IF history = <<>> THEN "absent" ELSE "list",
               !.wpmHistory = history])

\* checkImprovement(wpm, accuracy) as saveWpmData calls it, before the new
\* record is saved
ImprovementCheck ==
  \E wpm \in AttemptWpm, accuracy \in AttemptAccuracy :
    \E improvement \in {checkImprovement(World, wpm, accuracy)} :
      /\ Commit([World EXCEPT !.returned =
                   [ op |-> "checkImprovement", ok |-> improvement.improved,
                     threw |-> FALSE, arg |-> improvement.previousAttempt,
                     value |-> JSNull ]])

\* saveWpmData() once the timer has finished: the improvement is checked,
\* then the record of the attempt is made and pushed onto the history
ImprovementSave ==
  \E wpm \in AttemptWpm, accuracy \in AttemptAccuracy :
    \E improvement \in {checkImprovement(World, wpm, accuracy)} :
      /\ Len(wpmHistory) < MaxStored
      /\ Commit([World EXCEPT
                   !.wpmHistoryKind = "list",
                   !.wpmHistory =
                      Append(@, createTypingRecord(World, wpm, accuracy,
                                                   Len(@) + 1)),
                   !.returned =
                     [ op |-> "saveWpmData", ok |-> improvement.improved,
                       threw |-> FALSE, arg |-> improvement.previousAttempt,
                       value |-> JSNull ]])

NextImprovement ==
  \/ ImprovementCheck
  \/ ImprovementSave

SpecImprovement == InitImprovement /\ [][NextImprovement]_vars

\* ------------------------------------------------------------ properties
\* the last event made a call of this name
HasCall(name) == \E i \in 1..Len(calls) : calls[i].name = name

\* how many calls of this name the last event made
CountCalls(name) == Cardinality({ i \in 1..Len(calls) : calls[i].name = name })

\* the session fields of the TypingTest object
SessionState ==
  << words, currentWordIndex, correctChars, totalChars, totalKeystrokes,
     isActive, inputValue, inputDisabled >>

\* C1: from the reset state of a non-empty word list, after N advances
\* each made with the input equal to the current word, and no expiry of the
\* countdown, currentWordIndex is N and complete() has run iff N is the
\* number of words.
C1_ExactAdvances ==
  (Len(words) > 0 /\ allExact /\ remainingTime > 0) =>
    /\ currentWordIndex = advances
    /\ advances <= Len(words)
    /\ completed <=> advances = Len(words)
    /\ completed => ~isActive

C1_Witness ==
  /\ Len(words) >= 2
  /\ allExact
  /\ remainingTime > 0
  /\ advances = Len(words)
  /\ completed
  /\ HasCall("onComplete")

\* C2: an expiry of the timer while the session is active completes it in
\* the same event, onComplete carrying the counters as they were; an expiry
\* while the session is not active leaves the session as it was and records
\* no result.
C2_TimerExpiry ==
  [][ HasCall("timerComplete")' =>
        IF isActive
        THEN /\ ~isActive'
             /\ completed'
             /\ CountCalls("onComplete")' = 1
             /\ \A i \in 1..Len(calls') :
                  calls'[i].name = "onComplete" =>
                    /\ calls'[i].stats.correctChars = correctChars
                    /\ calls'[i].stats.totalChars = totalChars
                    /\ calls'[i].stats.currentWordIndex = currentWordIndex
        ELSE /\ SessionState' = SessionState
             /\ completed' = completed
             /\ ~HasCall("onComplete")'
             /\ storedResults' = storedResults ]_vars

C2_Witness ==
  /\ HasCall("timerComplete")
  /\ HasCall("onComplete")
  /\ completed
  /\ currentWordIndex < Len(words)

\* C3: an input event received while the session is not active makes it
\* active and calls onStart once; an input event received while it is active
\* does not call onStart; nothing else calls onStart, and the session stays
\* active until reset() or complete() runs.
C3_StartOnce ==
  [][ /\ totalKeystrokes' = totalKeystrokes + 1 =>
           /\ isActive'
           /\ CountCalls("onStart")' = (IF isActive THEN 0 ELSE 1)
      /\ HasCall("onStart")' =>
           ~isActive /\ totalKeystrokes' = totalKeystrokes + 1
      /\ (isActive /\ ~isActive') =>
           HasCall("reset")' \/ HasCall("complete")' ]_vars

C3_Witness ==
  /\ isActive
  /\ totalKeystrokes = 2
  /\ ~HasCall("onStart")
  /\ HasCall("onUpdate")
  /\ ~HasCall("moveToNextWord")


\* C4: while a session is completed the input field is disabled and the
\* timer is stopped, and until reset() runs (setText() runs it too) no
\* event changes currentWordIndex, correctChars, totalChars or isActive or
\* calls onStart, onUpdate or onComplete.
C4_CompletedIsTerminal ==
  [][ completed =>
        /\ ~isActive /\ inputDisabled /\ ~timerId /\ ~isRunning
        /\ \/ HasCall("reset")'
           \/ /\ UNCHANGED << currentWordIndex, correctChars, totalChars,
                              isActive >>
              /\ ~HasCall("onStart")'
              /\ ~HasCall("onUpdate")'
              /\ ~HasCall("onComplete")' ]_vars

C4_Witness ==
  /\ completed
  /\ HasCall("onComplete")
  /\ inputDisabled
  /\ pendingFetches > 0
  /\ remainingTime < Duration

\* C5: when an event has run resetTest(), the session is idle with all
\* counters zero, and the timer is stopped with the full duration remaining.
C5_ResetTestLeavesIdle ==
  HasCall("resetTest") =>
    /\ ~isActive
    /\ ~completed
    /\ currentWordIndex = 0
    /\ correctChars = 0
    /\ totalChars = 0
    /\ ~isRunning
    /\ ~timerId
    /\ remainingTime = Duration

C5_Witness ==
  /\ HasCall("resetTest")
  /\ improvementIndicator # ""
  /\ initPending
  /\ ~isActive
  /\ remainingTime = Duration

\* C6 as stated: currentWordIndex is between 0 and the number of words, and
\* equals the number of words only when the session has been completed.
C6_AsStated ==
  /\ 0 <= currentWordIndex
  /\ currentWordIndex <= Len(words)
  /\ currentWordIndex = Len(words) => completed

\* C6 amended: currentWordIndex is between 0 and the number of words, and
\* equals the number of words only when the session has been completed or no
\* text has been set yet (the word list is still empty).
C6_IndexInRange ==
  /\ 0 <= currentWordIndex
  /\ currentWordIndex <= Len(words)
  /\ currentWordIndex = Len(words) => (completed \/ Len(words) = 0)

C6_Witness ==
  /\ Len(words) >= 2
  /\ currentWordIndex = Len(words)
  /\ completed

\* C7: in an event that does not run reset(), currentWordIndex, correctChars
\* and totalChars do not decrease, and they change only if the session was
\* active when the event arrived.
C7_Monotonic ==
  [][ ~HasCall("reset")' =>
        /\ currentWordIndex' >= currentWordIndex
        /\ correctChars' >= correctChars
        /\ totalChars' >= totalChars
        /\ << currentWordIndex, correctChars, totalChars >>' #
             << currentWordIndex, correctChars, totalChars >> => isActive
    ]_vars

C7_Witness ==
  /\ HasCall("moveToNextWord")
  /\ ~HasCall("complete")
  /\ currentWordIndex >= 1
  /\ correctChars >= 1
  /\ isActive

\* C8 as stated: since the last reset(), the history has grown by exactly
\* one record if the session has been completed, and by none otherwise.
C8_AsStated ==
  Len(storedResults) = resultsAtReset + (IF completed THEN 1 ELSE 0)

\* C8 amended: since the last reset(), the history has grown by exactly one
\* record if the session has been completed and the write to storage did
\* not throw, and by none otherwise.
C8_OneRecordPerCompletion ==
  Len(storedResults) =
    resultsAtReset + (IF completed /\ ~writeFailed THEN 1 ELSE 0)

C8_Witness ==
  /\ completed
  /\ ~writeFailed
  /\ Len(storedResults) = 2
  /\ resultsAtReset = 1
  /\ HasCall("timerComplete")

\* the verdict shown by showImprovementIndicator
VerdictSpeed ==
  improvementIndicator \in
    { "Great job! You improved both speed and accuracy.",
      "You improved your typing speed!" }

VerdictAccuracy ==
  improvementIndicator \in
    { "Great job! You improved both speed and accuracy.",
      "You improved your typing accuracy!" }

VerdictFirstTest == improvementIndicator = "This is your first test!"

\* C9: when a session completes with a non-empty history, the verdict's
\* speed flag is true iff the new wpm is greater than the wpm of the record
\* that was last before the new result was appended, and likewise accuracy.
C9_ComparesWithPreceding ==
  [][ (HasCall("onComplete")' /\ Len(storedResults) > 0
         /\ Len(storedResults') = Len(storedResults) + 1) =>
        LET preceding == storedResults[Len(storedResults)]
            new == storedResults'[Len(storedResults')]
        IN  /\ VerdictSpeed' <=> new.wpm > preceding.wpm
            /\ VerdictAccuracy' <=> new.accuracy > preceding.accuracy
    ]_vars

\* C10: when a session completes while the history is empty, the verdict
\* is the first-attempt case.
C10_FirstAttempt ==
  [][ (HasCall("onComplete")' /\ Len(storedResults) = 0) =>
        VerdictFirstTest' /\ ~VerdictSpeed' /\ ~VerdictAccuracy' ]_vars

\* positions below both lengths at which typed and word hold the same
\* character
RECURSIVE MatchesUpTo(_, _, _)
MatchesUpTo(typed, word, n) ==
  IF n = 0 THEN 0
  ELSE MatchesUpTo(typed, word, n - 1) + (IF typed[n] = word[n] THEN 1 ELSE 0)

PositionalMatches(typed, word) ==
  MatchesUpTo(typed, word, Min(Len(typed), Len(word)))

\* the last event made one advance
OneAdvance == CountCalls("moveToNextWord") = 1

\* C11 as stated: an advance with typed input t over the word w adds the
\* number of positions where t and w agree to correctChars and len(w) to
\* totalChars.
C11_AsStated ==
  [][ OneAdvance' =>
        LET typed == Trim(inputValue)
            word == words[currentWordIndex + 1]
        IN  /\ correctChars' = correctChars + PositionalMatches(typed, word)
            /\ totalChars' = totalChars + Len(word) ]_vars

\* C11 amended: an advance with typed input t (trimmed) over the word w adds
\* to correctChars the number of positions where t and w agree, plus one
\* for the separating space when t equals w, and adds len(w) + 1 to
\* totalChars; "hxllo" typed for "hello" gives 4 correct and 6 total.
C11_AdvanceCounts ==
  [][ OneAdvance' =>
        LET typed == Trim(inputValue)
            word == words[currentWordIndex + 1]
        IN  /\ correctChars' = correctChars + PositionalMatches(typed, word)
                                 + (IF typed = word THEN 1 ELSE 0)
            /\ totalChars' = totalChars + Len(word) + 1
            /\ (word = <<"h", "e", "l", "l", "o">>
                  /\ typed = <<"h", "x", "l", "l", "o">>) =>
                 /\ correctChars' = correctChars + 4
                 /\ totalChars' = totalChars + 6 ]_vars

C11_Witness ==
  /\ words = << <<"h", "e", "l", "l", "o">> >>
  /\ lastProcessedInput = <<"h", "x", "l", "l", "o">>
  /\ OneAdvance
  /\ correctChars = 4
  /\ totalChars = 6


\* the sum over the words of len(word) + 1
RECURSIVE CharsWithSpaces(_)
CharsWithSpaces(list) ==
  IF list = <<>> THEN 0
  ELSE Len(Head(list)) + 1 + CharsWithSpaces(Tail(list))

\* C12: when every word has been typed exactly and terminated, after the
\* last advance correctChars and totalChars both equal the sum over the
\* words of len(word) + 1, currentWordIndex is the number of words and the
\* session is completed; for "cat dog" the counters are 8 and the index 2,
\* and finished after 30 seconds the speed shown is calculateWPM(8, 30) = 3.
C12_ExactSession ==
  (allExact /\ advances = Len(words) /\ Len(words) > 0) =>
    /\ correctChars = CharsWithSpaces(words)
    /\ totalChars = CharsWithSpaces(words)
    /\ currentWordIndex = Len(words)
    /\ completed /\ ~isActive
    /\ words = << <<"c", "a", "t">>, <<"d", "o", "g">> >> =>
         /\ correctChars = 8
         /\ currentWordIndex = 2
         /\ remainingTime = 30 => wpmDisplay = 3

C12_Witness ==
  /\ words = << <<"c", "a", "t">>, <<"d", "o", "g">> >>
  /\ allExact
  /\ advances = 2
  /\ completed
  /\ correctChars = 8
  /\ remainingTime = 30
  /\ wpmDisplay = 3
  /\ HasCall("onComplete")

\* C13: in an advance with an input longer than the word, every excess
\* character is counted in totalChars (which grows by at least the length
\* of the input) and none in correctChars.
C13_ExcessCounted ==
  [][ OneAdvance' =>
        LET typed == Trim(inputValue)
            word == words[currentWordIndex + 1]
        IN  Len(typed) > Len(word) =>
              /\ totalChars' - totalChars >= Len(typed)
              /\ correctChars' - correctChars <= Len(word) ]_vars

\* the sum of the lengths of the words left with an empty input
RECURSIVE EmptyWordsLength(_)
EmptyWordsLength(n) ==
  IF n = 0 THEN 0
  ELSE EmptyWordsLength(n - 1)
         + (IF window_wordInputs[n] = <<>> THEN Len(window_allWords[n]) ELSE 0)

\* C14: when the counters have been recomputed with the field empty and
\* every word left so far was left with an empty input, the correct
\* characters are 0 and the total characters are the lengths of those words.
C14_EmptyWordCharged ==
  ( /\ HasCall("updateWordDisplay")
    /\ inputValue = <<>>
    /\ window_currentWordIndex <= Len(window_allWords)
    /\ Len(window_wordInputs) = window_currentWordIndex
    /\ \A i \in 1..Len(window_wordInputs) : window_wordInputs[i] = <<>> ) =>
    /\ window_correctCharactersTyped = 0
    /\ window_totalCharactersTyped = EmptyWordsLength(window_currentWordIndex)

\* the last event was a call of saveResult
SaveStep ==
  HasCall("saveResult returned true") \/ HasCall("saveResult returned false")

\* C15: when the entry holds a valid list H and setItem does not throw,
\* saveResult(r) returns true and getResults() afterwards equals H with r
\* appended at the end.
C15_AppendsRecord ==
  [][ (SaveStep' /\ storedKind = "list" /\ ~returned'.threw) =>
        /\ returned'.ok
        /\ getResults(World)' =
             JSArray(Append(getResults(World).items, returned'.arg))
    ]_vars

\* the statistics handed to onComplete by the last event
CompletedStats ==
  calls[CHOOSE i \in 1..Len(calls) : calls[i].name = "onComplete"].stats

\* C16: when setItem throws during the saveResult of a completion,
\* saveResult returns false to handleTestComplete, the stored history is
\* what it was, the displays show the wpm and accuracy just computed and
\* the results section is revealed.
C16_DisplayDespiteFailure ==
  [][ /\ HasCall("onComplete")' => SaveStep'
      /\ (HasCall("onComplete")' /\ HasCall("saveResult returned false")') =>
           /\ storedResults' = storedResults
           /\ storedKind' = storedKind
           /\ wpmDisplay' =
                calculateWPM(CompletedStats'.correctChars, 60 - remainingTime')
           /\ accuracyDisplay' =
                calculateAccuracy(CompletedStats'.correctChars,
                                  CompletedStats'.totalChars)
           /\ ~resultsHidden'
    ]_vars

C16_Witness ==
  /\ HasCall("onComplete")
  /\ HasCall("saveResult returned false")
  /\ writeFailed
  /\ CompletedStats.totalChars > 0
  /\ accuracyDisplay = 0
  /\ ~resultsHidden

\* C17: whatever the entry holds, getResults() and getTypingHistory() do
\* not throw and return a sequence: the stored list when the entry holds a
\* valid list, the empty sequence otherwise.
C17_ReadersTotal ==
  /\ returned.op = "getResults" =>
       /\ ~returned.threw
       /\ returned.value =
            JSArray(IF storedKind = "list" THEN storedResults ELSE <<>>)
  /\ returned.op = "getTypingHistory" =>
       /\ ~returned.threw
       /\ returned.value =
            JSArray(IF wpmHistoryKind = "list" THEN wpmHistory ELSE <<>>)

\* C18: a result made by createTestResult and saved with saveResult is read
\* back by getResults() as the last record, equal to the original in every
\* field and in the type of every field.
C18_RoundTrip ==
  (returned.op = "saveResult" /\ returned.ok) =>
    LET results == getResults(World).items
    IN  results[Len(results)] = returned.arg

\* the last event ran the interval callback of the Timer
IntervalFired == remainingTime' < remainingTime

\* C19: the callbacks of a countdown come from its interval alone; the
\* callback that finds remainingTime at zero or below invokes onComplete
\* once, finding the timer stopped, and leaves no interval behind, so that
\* neither onTick nor onComplete of that countdown can follow; no other
\* step invokes onComplete.
C19_CompleteOnce ==
  [][ /\ IntervalFired => intervals = 1 /\ isRunning /\ timerId
      /\ IntervalFired =>
           (remainingTime' <= 0 <=> CountCalls("timerComplete")' = 1)
      /\ HasCall("timerComplete")' =>
           /\ IntervalFired
           /\ remainingTime' <= 0
           /\ intervals' = 0
           /\ ~isRunning'
           /\ ~timerId'
      /\ ~HasCall("timerComplete of a running timer")'
    ]_vars

\* a countdown has expired while no session was active
C19_Witness ==
  /\ HasCall("timerComplete")
  /\ ~HasCall("onComplete")
  /\ remainingTime <= 0
  /\ intervals = 0
  /\ ~isRunning

\* C20: start() on a running timer sets no interval, leaves remainingTime
\* and timerId as they are and calls neither onTick nor onComplete; at most
\* one interval is set at any time.
C20_StartIdempotent ==
  [][ /\ intervals' <= 1
      /\ (HasCall("Timer.start of a running timer")'
             /\ ~HasCall("onComplete")') =>
           /\ isRunning /\ isRunning'
           /\ intervals' = intervals
           /\ remainingTime' = remainingTime
           /\ timerId' = timerId
           /\ ~HasCall("onTick")'
           /\ ~HasCall("timerComplete")'
    ]_vars

C20_Witness ==
  /\ HasCall("Timer.start of a running timer")
  /\ ~HasCall("onTick")
  /\ isRunning
  /\ timerId
  /\ intervals = 1
  /\ remainingTime < Duration

\* the last event called Timer.reset()
ResetStep ==
  HasCall("Timer.reset") \/ HasCall("Timer.reset of a running timer")

\* C21: an event that calls Timer.reset(), whatever the timer's state
\* before, leaves the timer not running, with no interval set and with
\* remainingTime equal to the duration; onTick is called once and
\* onComplete not at all.
C21_ResetCancels ==
  [][ ResetStep' =>
        /\ ~isRunning'
        /\ ~timerId'
        /\ intervals' = 0
        /\ remainingTime' = Duration
        /\ CountCalls("onTick")' = 1
        /\ ~HasCall("timerComplete")'
        /\ ~HasCall("onComplete")'
    ]_vars

\* a running countdown has been cancelled by reset()
C21_Witness ==
  /\ HasCall("Timer.reset of a running timer")
  /\ HasCall("onTick")
  /\ ~isRunning
  /\ intervals = 0
  /\ remainingTime = Duration
  /\ inputEvents > 0

\* the three built-in phrases as fetchText joins them
BuiltInText ==
  DefaultText \o <<".", " ">> \o DefaultText \o <<".", " ">> \o DefaultText
    \o <<".">>

\* C22: fetchText() never rejects and resolves with a text that ends with
\* a full stop; when the local source and the API it turns to have both
\* failed, the text is the built-in phrase three times over.
C22_AlwaysAText ==
  returned.op = "fetchText" =>
    /\ returned.ok
    /\ ~returned.threw
    /\ Len(returned.arg) > 0
    /\ returned.arg[Len(returned.arg)] = "."
    /\ returned.arg # Undefined
    /\ CountCalls("fetchMultipleTexts threw") = 2 => returned.arg = BuiltInText

C22_Witness ==
  /\ returned.op = "fetchText"
  /\ CountCalls("fetchMultipleTexts threw") = 2
  /\ returned.arg = BuiltInText
  /\ Len(textCache.quotable) > 0

\* C23: calculateWPM(correctChars, elapsedSeconds) is
\* round((correctChars / 5) / (elapsedSeconds / 60)) when elapsedSeconds is
\* positive and 0 when it is zero or negative.
C23_ZeroWithoutTime ==
  returned.op = "calculateWPM" =>
    LET correct == returned.arg[1]
        seconds == returned.arg[2]
    IN  /\ ~returned.value.isNaN
        /\ returned.value.n =
             IF seconds <= 0 THEN 0 ELSE Round(60 * correct, 5 * seconds)

\* C24: in the statistics module and on the global-state page alike, the
\* accuracy is 100 when no character was attempted, 0 when none of those
\* attempted is correct, and round(correct / total * 100) otherwise.
C24_AccuracyOfBoth ==
  returned.op \in {"calculateAccuracy", "stats.calculateAccuracy"} =>
    LET correct == returned.arg[1]
        total == returned.arg[2]
    IN  returned.value =
          JSNumber(IF total = 0 THEN 100
                   ELSE IF correct = 0 THEN 0
                   ELSE Round(100 * correct, total))

\* C25: calculateAccuracy with its optional arguments returns an integer
\* for all counts, given or left out.
C25_AlwaysAnInteger ==
  returned.op = "calculateAccuracy with optional arguments" =>
    ~returned.value.isNaN

SessionOf(w) ==
  [ words |-> w.words, currentWordIndex |-> w.currentWordIndex,
    currentCharIndex |-> w.currentCharIndex,
    correctChars |-> w.correctChars, totalChars |-> w.totalChars,
    totalKeystrokes |-> w.totalKeystrokes, isActive |-> w.isActive,
    inputValue |-> w.inputValue, inputDisabled |-> w.inputDisabled,
    onUpdate |-> IF w.calls = <<>> THEN NoStats
                 ELSE w.calls[Len(w.calls)].stats ]

\* the fields of a Timer object and the number of intervals it has set
TimerOf(w) ==
  [ remainingTime |-> w.remainingTime, isRunning |-> w.isRunning,
    timerId |-> w.timerId, intervals |-> w.intervals ]

\* C27: in every reachable state TypingTest.reset() called twice leaves
\* the session that one call leaves, and Timer.reset() called twice leaves
\* the timer that one call leaves.
C27_ResetIdempotent ==
  /\ SessionOf(reset(reset(World))) = SessionOf(reset(World))
  /\ TimerOf(Timer_reset(Timer_reset(World))) = TimerOf(Timer_reset(World))

\* a session with counted characters and a running countdown part of the
\* way down: both resets change the state, and a second call changes
\* nothing more
C27_Witness ==
  /\ isActive
  /\ correctChars > 0
  /\ currentWordIndex > 0
  /\ isRunning
  /\ remainingTime < Duration
  /\ SessionOf(reset(World)) # SessionOf(World)
  /\ TimerOf(Timer_reset(World)) # TimerOf(World)
  /\ SessionOf(reset(reset(World))) = SessionOf(reset(World))
  /\ TimerOf(Timer_reset(Timer_reset(World))) = TimerOf(Timer_reset(World))

\* C28: in every event in which onStart fires the timer was not running
\* before and has the whole duration left after, and after no event is
\* the timer running while the session is idle (neither active nor
\* completed).
C28_FullCountdown ==
  [][ /\ HasCall("onStart")' => (~isRunning /\ remainingTime' = Duration)
      /\ (~isActive' /\ ~completed') => ~isRunning'
    ]_vars

\* C29: when the last of the pending fetches has resolved, the words
\* installed are those of the loadNewText call made last, in whatever
\* order the fetches resolved.
C29_LatestRequestWins ==
  (HasCall("setText") /\ pendingFetches = 0 /\ ~initPending) =>
    HasCall(Resolution(TRUE))

\* callGPT() has resolved in this step and fetchAndProcessText has put a
\* new list into window.allWords
InstallStep ==
  gptPending' < gptPending /\ HasCall("updateWordDisplay")'

\* C30: whenever fetchAndProcessText installs a word list,
\* window.currentWordIndex is 0, window.wordInputs is empty and
\* window.correctWordsCount is 0 after it, whatever was typed while the
\* fetch was pending.
C30_CleanInstall ==
  [][ InstallStep =>
        /\ window_currentWordIndex' = 0
        /\ window_wordInputs' = <<>>
        /\ window_correctWordsCount' = 0
    ]_vars

\* C31: with the interval callback firing as long as an interval is set,
\* every session that is active is later not active: it has completed or
\* has been reset.
C31_ActiveEnds == isActive ~> ~isActive

\* the countdown has ended a session that had words left to type
C31_Witness ==
  /\ HasCall("timerComplete")
  /\ HasCall("onComplete")
  /\ completed
  /\ ~isActive
  /\ currentWordIndex < Len(words)
  /\ remainingTime <= 0
  /\ intervals = 0

\* the advance of this step has left the last word of a list that has words
LastWordLeft ==
  /\ HasCall("checkWordAndAdvance")'
  /\ window_allWords' # <<>>
  /\ window_currentWordIndex' = Len(window_allWords')

\* C32: the advance that takes window.currentWordIndex to
\* window.allWords.length completes the session in that step: the
\* countdown is stopped, a record is added to the history and the field
\* takes no more keystrokes.
C32_CompletesAtLastWord ==
  [][ LastWordLeft =>
        /\ ~window_timerInterval'
        /\ Len(wpmHistory') = Len(wpmHistory) + 1
        /\ inputDisabled' \/ window_timerFinished'
    ]_vars

\* C33: in every state of the global-state page window.currentWordIndex
\* is at least 0 and at most window.allWords.length.
C33_GlobalIndexInRange ==
  /\ window_currentWordIndex >= 0
  /\ window_currentWordIndex <= Len(window_allWords)

\* C34: with a history of at least one record, checkImprovement compares
\* the current attempt against the last record of the history.
C34_ComparesWithLast ==
  /\ (returned.op = "checkImprovement" /\ Len(wpmHistory) >= 1) =>
       returned.arg = <<wpmHistory[Len(wpmHistory)]>>
  /\ (returned.op = "saveWpmData" /\ Len(wpmHistory) >= 2) =>
       returned.arg = <<wpmHistory[Len(wpmHistory) - 1]>>

\* the marks of the current word are those of the field's value: correct
\* or incorrect at each position the value reaches, none beyond it
MarksOfValue ==
  LET currentWord == words[currentWordIndex + 1]
  IN  charMarks[currentWordIndex + 1] =
        [j \in 1..Len(currentWord) |->
           IF j > Len(inputValue) THEN "none"
           ELSE IF inputValue[j] = currentWord[j] THEN "correct"
           ELSE "incorrect"]

\* C35: after every input event whose value does not end in a space, each
\* position of the current word that the value reaches is marked correct
\* if the characters agree and incorrect if not, and no position beyond
\* the value is marked.
C35_MarksFollowInput ==
  [][ ( /\ totalKeystrokes' = totalKeystrokes + 1
        /\ ~EndsWithSpace(inputValue')
        /\ currentWordIndex' < Len(words') ) => MarksOfValue'
    ]_vars

\* C36: an event in which moveToNextWord runs, a space keydown handled by
\* TypingTest.handleKeyDown and by the listener of startTest, takes
\* currentWordIndex forward by one at most, empty words in the list
\* included.
C36_OneAdvancePerSpace ==
  [][ HasCall("moveToNextWord")' =>
        currentWordIndex' <= currentWordIndex + 1
    ]_vars

\* C37: with the TypingTest of typingTest.js, correctChars equals totalChars
\* in every reachable state, and every accuracy computed from its stats,
\* displayed or stored, is 100 whatever was typed
C37_AlwaysAccurate ==
  /\ correctChars = totalChars
  /\ calculateAccuracy(correctChars, totalChars) = 100
  /\ accuracyDisplay = 100
  /\ \A i \in 1..Len(storedResults) : storedResults[i].accuracy = 100

\* a session with a word left behind after an input that was not the word
C37_Witness ==
  /\ totalChars > 0
  /\ correctChars = totalChars
  /\ lastProcessedInput = <<"a", "b", "b">>


\* C38: when fetchText finds the local source failing while a remote source
\* can succeed (here Quotable, a text of it being cached), it resolves with
\* text of a remote source, never with the built-in default phrase
C38_RemoteBeforeDefault ==
  [][ ( /\ returned'.op = "fetchText"
        /\ HasCall("fetchMultipleTexts threw")'
        /\ Len(textCache.quotable) > 0 )
      => returned'.arg # BuiltInText ]_vars

\* C39: on the global-state page an entry of window.wordInputs is written
\* only by the advance that leaves its word, with the value the field held,
\* and an entry once written keeps its value; input events write none
C39_InputsFrozen ==
  [][ /\ Len(window_wordInputs') >= Len(window_wordInputs)
      /\ \A i \in 1..Len(window_wordInputs) :
           window_wordInputs'[i] = window_wordInputs[i]
      /\ window_wordInputs' # window_wordInputs =>
           /\ HasCall("checkWordAndAdvance")'
           /\ Len(window_wordInputs') = window_currentWordIndex + 1
           /\ window_wordInputs'[window_currentWordIndex + 1] = inputValue
    ]_vars

\* C40: each of the caches textCache.poetry, textCache.quotable and
\* textCache.local holds at most CACHE_LIMIT entries in every reachable
\* state
C40_CachesBounded ==
  /\ Len(textCache.poetry) <= CACHE_LIMIT
  /\ Len(textCache.quotable) <= CACHE_LIMIT
  /\ Len(textCache.local) <= CACHE_LIMIT

====
